---- MODULE Spec2Model ----
(***************************************************************************)
(* Model of the inbound delivery decision of the mail server:              *)
(* smtpserver.analyze (src/smtpserver/analyze.go).                          *)
(*                                                                         *)
(* analyze is a function of a delivery d and of what its collaborators     *)
(* answer (ruleset lookup, report parsers, reputation, subjectpass, junk   *)
(* filter, DNSBL resolver, clock, random jitter).  The collaborators'      *)
(* answers are the record env; the delivery is the record d.  One action,  *)
(* Analyze, runs the whole function and records its result, the calls it   *)
(* made to its collaborators, in order, and the fields of d.m it wrote.    *)
(*                                                                         *)
(* Probabilities and thresholds are in thousandths (0.25 is 250), times    *)
(* in seconds.                                                             *)
(***************************************************************************)
EXTENDS Integers, Sequences, FiniteSets, TLC

VARIABLES
    d,        \* the delivery handed to analyze
    env,      \* the answers of analyze's collaborators for this delivery
    pc,       \* "start" before analyze ran, "done" after it returned
    result,   \* the analysis analyze returned
    calls,    \* the collaborator calls analyze made, in order
    m,        \* the fields of d.m analyze wrote (MailboxID, MailboxDestinedID)
    jitter,   \* the jitter drawn for the junk threshold (0 when none was drawn)
    hint,     \* the subjectpass token the sender took from an earlier rejection
    acc,      \* the account database: mailboxes, messages, next uid validity
    checked,  \* what verifydata found in the account database
    disk,     \* the files of the data directory
    wire,     \* a data stream on the control socket: writer, connection, reader
    ctl,      \* the connections to the control socket, as the server sees them
    queue,    \* the delivery queue and its clock
    sts,      \* an MTA-STS lookup: the domain, the resolver's answers, the result
    locks     \* the accounts that are open: references, lock holders, operations

vars == <<d, env, pc, result, calls, m, jitter, hint, acc, checked, disk, wire, ctl, queue,
          sts, locks>>

\* The variables of the control socket, the data directory and the queue.
ctlVars == <<disk, wire, ctl, queue>>
\* The variables of MTA-STS and of the open accounts.
otherVars == <<sts, locks>>
\* The variables of analyze.
analyzeVars == <<d, env, pc, result, calls, m, jitter, hint>>

----------------------------------------------------------------------------
(* Bounds of the model. *)

\* Longest list of DKIM results of a delivery.
MaxDKIM == 1
\* Most DNS blocklist zones configured.
MaxZones == 2
\* Most policies in a TLS report.
MaxPolicies == 2
\* Largest next uid validity of an account, and most messages delivered to it.
MaxUIDValidity == 4
MaxMessages == 2
\* Largest uid, uid_next and uid validity in a database found on disk.
MaxBackupUID == 2
\* Longest message streamed to the server.
MaxMsgLen == 4
\* Largest buffer handed to a Read of a data stream.
MaxBuf == 2
\* Largest number among the file names of the data directory.
MaxFileNumber == 2
\* The messages in the queue when it is kicked, the attempts after which a
\* message is given up, and the attempts that may run at once, in all and to
\* one domain.
MaxQueued == 2
MaxAttempts == 2
MaxBackoffAttempts == 10
MaxConcurrentDeliveries == 2
MaxDeliveriesPerDomain == 2

----------------------------------------------------------------------------
(* Constants of the program. *)

C451LocalErr == 451
C550MailboxUnavail == 550
SeSys3Other0 == "5.3.0"
SePol7MultiAuthFails26 == "5.7.26"
SePol7DeliveryUnauth1 == "5.7.1"

reasonListAllow == "list-allow"
reasonDMARCPolicy == "dmarc-policy"
reasonReputationError == "reputation-error"
reasonReporting == "reporting"
reasonSPFPolicy == "spf-policy"
reasonJunkClassifyError == "junk-classify-error"
reasonJunkFilterError == "junk-filter-error"
reasonGiveSubjectpass == "give-subjectpass"
reasonNoBadSignals == "no-bad-signals"
reasonJunkContent == "junk-content"
reasonJunkContentStrict == "junk-content-strict"
reasonDNSBlocklisted == "dns-blocklisted"
reasonSubjectpass == "subjectpass"
reasonSubjectpassError == "subjectpass-error"
reasonIPrev == "iprev"

\* The reputation methods (type reputationMethod).
methodMsgfromFull == "msgfrom-full"
methodMsgfromDomain == "msgfrom-domain"
methodMsgfromOrgDomain == "msgfrom-org"
methodDKIMSPF == "dkim-spf"
methodIP1 == "ip1"
methodIP2 == "ip2"
methodIP3 == "ip3"
methodNone == "none"
reputationMethods ==
    {methodMsgfromFull, methodMsgfromDomain, methodMsgfromOrgDomain,
     methodDKIMSPF, methodIP1, methodIP2, methodIP3, methodNone}

\* The stricter junk threshold used with a suspicious iprev failure: 0.25.
StrictThreshold == 250
\* junkSubjectpass needs the probability this far below the threshold: 0.2.
SubjectpassMargin == 200
\* A report whose date range ends more than this many seconds from now is ignored.
ReportFutureSlack == 60

\* The text that precedes the token in a subjectpass rejection.
Explanation == "subjectpass.Explanation"
errorProcessing == "error processing"

\* No error (Go's nil error).
NoErr == "nil"

----------------------------------------------------------------------------
(* Collaborators outside analyze. *)

\* subjectpass.Generate: the token for a From address, a key and a time.
Generate(from, key, now) == [mac |-> <<key, from, now>>, time |-> now]

\* subjectpass.Verify returning nil: the message holds a token whose MAC is
\* the one of the message's From address under key and whose time is at most
\* period ago.
VerifyPass(dataFile, key, period, now) ==
    \E i \in 1..Len(dataFile.tokens) :
        LET t == dataFile.tokens[i] IN
        /\ t.mac = <<key, dataFile.from, t.time>>
        /\ now - t.time <= period

\* store.MessageRuleset: the first ruleset of the destination that matches
\* the message; present = FALSE is the nil ruleset.
MessageRuleset(e) == e.rs

\* The mailbox IDs of the account's mailboxes; 0 when MailboxFind finds none.
MailboxFind(e, name) == IF name \in e.mailboxes THEN
                            CASE name = "Inbox" -> 1
                              [] name = "Lists" -> 2
                              [] OTHER -> 3
                        ELSE 0

----------------------------------------------------------------------------
(* The analysis record and its constructors. *)

NoToken == <<>>

\* An error message: a text, followed by a subjectpass token if any.
Msg(text, token) == [text |-> text, token |-> token]

\* The zero analysis.
ZeroAnalysis ==
    [accept |-> FALSE, code |-> 0, secode |-> "", userError |-> FALSE,
     errmsg |-> Msg("", NoToken), err |-> NoErr,
     dmarcReport |-> FALSE, tlsReport |-> FALSE, reason |-> ""]

\* Mutant of reject: every rejection is reported as the user's error.
rejectUserError(code, secode, errmsg, err, reason) ==
    [accept |-> FALSE, code |-> code, secode |-> secode,
     userError |-> TRUE, errmsg |-> errmsg, err |-> err,
     dmarcReport |-> FALSE, tlsReport |-> FALSE, reason |-> reason]

\* The closure reject of analyze: userError is set iff no error is attached.
reject(code, secode, errmsg, err, reason) ==
    [accept |-> FALSE, code |-> code, secode |-> secode,
     userError |-> (err = NoErr), errmsg |-> errmsg, err |-> err,
     dmarcReport |-> FALSE, tlsReport |-> FALSE, reason |-> reason]

\* Mutant of accepted: the reports are left out of the result.
acceptedWithoutReports(dmarcReport, tlsReport, reason) ==
    [ZeroAnalysis EXCEPT !.accept = TRUE, !.reason = reason]

\* Mutant of accepted: an acceptance carries the SMTP code 250.
acceptedCode250(dmarcReport, tlsReport, reason) ==
    [ZeroAnalysis EXCEPT !.accept = TRUE, !.code = 250, !.dmarcReport = dmarcReport,
                         !.tlsReport = tlsReport, !.reason = reason]

\* analysis{accept: true, dmarcReport: ..., tlsReport: ..., reason: ...}
accepted(dmarcReport, tlsReport, reason) ==
    [ZeroAnalysis EXCEPT !.accept = TRUE, !.dmarcReport = dmarcReport,
                         !.tlsReport = tlsReport, !.reason = reason]

\* A call to a collaborator; zone is 0 unless the call is about a DNSBL zone.
Call(op) == [op |-> op, zone |-> 0]
ZoneCall(op, zone) == [op |-> op, zone |-> zone]

\* What one run of analyze leaves behind.
Out(a, cs, mm, j) == [a |-> a, calls |-> cs, m |-> mm, jitter |-> j]

ZeroM == [MailboxID |-> 0, MailboxDestinedID |-> 0]

----------------------------------------------------------------------------
(* analyze, step by step. *)

\* The zero dns.Domain.
ZeroDomain == ""

\* Mutant of listAllow: the DKIM signatures are not looked at.
listAllowMailFromOnly(dd, rs) ==
    /\ rs.present
    /\ rs.ListAllowDNSDomain /= ZeroDomain
    /\ dd.m.MailFromValidated /\ rs.ListAllowDNSDomain = dd.m.MailFromDomain

\* Mailing-list allowance: the ruleset names a list domain and the validated
\* MAIL FROM domain is it, or some passing DKIM signature is of it.
listAllow(dd, rs) ==
    /\ rs.present
    /\ rs.ListAllowDNSDomain /= ZeroDomain
    /\ \/ dd.m.MailFromValidated /\ rs.ListAllowDNSDomain = dd.m.MailFromDomain
       \/ \E i \in 1..Len(dd.dkimResults) :
             /\ dd.dkimResults[i].Status = "pass"
             /\ dd.dkimResults[i].Domain = rs.ListAllowDNSDomain

\* Mutant of dmarcPolicyReject: a validated MAIL FROM escapes the DMARC policy.
dmarcPolicyRejectUnvalidated(dd) ==
    dd.dmarcUse /\ dd.dmarcResult.Reject /\ ~dd.m.MailFromValidated

\* DMARC reject.
dmarcPolicyReject(dd) == dd.dmarcUse /\ dd.dmarcResult.Reject

\* The report parser is called for a DMARC report destination with a DMARC pass.
dmarcReportParsed(dd) ==
    dd.destination.DMARCReports /\ dd.dmarcResult.Status = "pass"

\* Mutant of dmarcReportOf: a report for a domain that is not configured is kept.
dmarcReportOfAnyDomain(dd, e) ==
    /\ dmarcReportParsed(dd)
    /\ ~e.dmarcrpt.parseErr
    /\ ~e.dmarcrpt.domainErr
    /\ ~(e.dmarcrpt.end > e.now + ReportFutureSlack)

\* The local variable dmarcReport is set (non-nil).
dmarcReportOf(dd, e) ==
    /\ dmarcReportParsed(dd)
    /\ ~e.dmarcrpt.parseErr
    /\ ~e.dmarcrpt.domainErr
    /\ e.dmarcrpt.configured
    /\ ~(e.dmarcrpt.end > e.now + ReportFutureSlack)

\* Mutant of tlsReportDKIM: the signing domain is not compared with the From domain.
tlsReportDKIMAnyDomain(dd) ==
    \E i \in 1..Len(dd.dkimResults) :
        LET r == dd.dkimResults[i] IN
        /\ r.Status = "pass"
        /\ r.Length < 0
        /\ r.ServiceTLSRPT

\* A passing DKIM signature of the From domain, without l=, allowing service tlsrpt.
tlsReportDKIM(dd) ==
    \E i \in 1..Len(dd.dkimResults) :
        LET r == dd.dkimResults[i] IN
        /\ r.Status = "pass"
        /\ r.Domain = dd.msgFrom.Domain
        /\ r.Length < 0
        /\ r.ServiceTLSRPT

\* The report parser is called for a TLS report destination with such a signature.
tlsReportParsed(dd) == dd.destination.TLSReports /\ tlsReportDKIM(dd)

\* The local variable tlsReport is set (non-nil): some policy domain of the
\* parsed report parses and is a configured domain.
tlsReportOf(dd, e) ==
    /\ tlsReportParsed(dd)
    /\ ~e.tlsrpt.parseErr
    /\ \E i \in 1..Len(e.tlsrpt.policies) : e.tlsrpt.policies[i] = "local"

\* The calls of the report extraction.
reportCalls(dd) ==
    (IF dmarcReportParsed(dd) THEN <<Call("dmarcrpt.ParseMessageReport")>> ELSE <<>>)
    \o (IF tlsReportParsed(dd) THEN <<Call("tlsrpt.ParseMessage")>> ELSE <<>>)

\* The mailbox the message is destined for.
destinationMailbox(dd, rs) ==
    IF rs.present THEN rs.Mailbox
    ELSE IF dd.destination.Mailbox = "" THEN "Inbox"
    ELSE dd.destination.Mailbox

\* d.m after the mailbox lookup: both IDs are set when the mailbox exists.
mailboxIDs(dd, e, rs) ==
    LET id == MailboxFind(e, destinationMailbox(dd, rs)) IN
    IF id /= 0 THEN [MailboxID |-> id, MailboxDestinedID |-> id] ELSE ZeroM

\* The methods for which SPF and iprev are looked at.
weakMethod(method) ==
    method \in {methodDKIMSPF, methodIP1, methodIP2, methodIP3, methodNone}

\* Mutant of spfPolicyReject: a softfail passes the gate.
spfPolicyRejectFailOnly(dd, method) ==
    weakMethod(method) /\ dd.m.MailFromValidation = "fail"

\* SPF gate.
spfPolicyReject(dd, method) ==
    weakMethod(method) /\ dd.m.MailFromValidation \in {"fail", "softfail"}

\* suspiciousIPrevFail
suspiciousIPrevFail(dd, method) ==
    weakMethod(method) /\ dd.iprevStatus /= "pass"

\* Mutant of iprevReject: isjunk is tested for presence only.
iprevRejectAnySignal(dd, rep) ==
    suspiciousIPrevFail(dd, rep.method) /\ rep.isjunk /= "nil"

\* With already a mild junk signal, an iprev fail on top is enough to reject.
iprevReject(dd, rep) ==
    suspiciousIPrevFail(dd, rep.method) /\ rep.isjunk /= "nil" /\ rep.isjunk = "true"

\* jitter := (jitterRand.Float64() - 0.5) / 10, rand in thousandths.
jitterOf(rand) == (rand - 500) \div 10

\* threshold := jf.Threshold + jitter
jitteredThreshold(e, j) == e.junk.Threshold + j

\* The stricter threshold applies.
strictContent(dd, e, method, j) ==
    suspiciousIPrevFail(dd, method) /\ jitteredThreshold(e, j) > StrictThreshold

\* The threshold the content probability is compared with.
contentThreshold(dd, e, method, j) ==
    IF strictContent(dd, e, method, j) THEN StrictThreshold
    ELSE jitteredThreshold(e, j)

\* Mutant of contentAccept: a probability equal to the threshold is refused.
contentAcceptBelow(dd, e, method, j) ==
    e.junk.contentProb < contentThreshold(dd, e, method, j)

\* accept = contentProb <= threshold
contentAccept(dd, e, method, j) ==
    e.junk.contentProb <= contentThreshold(dd, e, method, j)

\* junkSubjectpass = contentProb < threshold-0.2
junkSubjectpass(dd, e, method, j) ==
    e.junk.contentProb < contentThreshold(dd, e, method, j) - SubjectpassMargin

\* checkDNSBLHealth and dnsbl.Lookup, as the resolver answers for the zone.
checkDNSBLHealth(e, zone) == e.dnsbl[zone].healthy
Lookup(e, zone) == e.dnsbl[zone].status

\* Mutant of blocked: the result of the health check is ignored.
blockedUnchecked(e, zone) ==
    [listed |-> (Lookup(e, zone) = "fail"),
     calls |-> <<ZoneCall("checkDNSBLHealth", zone), ZoneCall("dnsbl.Lookup", zone)>>]

\* Mutant of blocked: a lookup that returns an error counts as a listing.
blockedOnError(e, zone) ==
    IF ~checkDNSBLHealth(e, zone)
    THEN [listed |-> FALSE, calls |-> <<ZoneCall("checkDNSBLHealth", zone)>>]
    ELSE [listed |-> (Lookup(e, zone) /= "pass"),
          calls |-> <<ZoneCall("checkDNSBLHealth", zone), ZoneCall("dnsbl.Lookup", zone)>>]

\* The closure blocked: whether the zone lists the remote IP, and the calls made.
blocked(e, zone) ==
    IF ~checkDNSBLHealth(e, zone)
    THEN [listed |-> FALSE, calls |-> <<ZoneCall("checkDNSBLHealth", zone)>>]
    ELSE [listed |-> (Lookup(e, zone) = "fail"),
          calls |-> <<ZoneCall("checkDNSBLHealth", zone), ZoneCall("dnsbl.Lookup", zone)>>]

\* Mutant of dnsblLoop: the loop does not break at the first listing.
RECURSIVE dnsblLoopNoBreak(_, _, _)
dnsblLoopNoBreak(zones, e, i) ==
    IF i > Len(zones) THEN [listed |-> FALSE, calls |-> <<>>]
    ELSE LET b == blocked(e, zones[i])
             rest == dnsblLoopNoBreak(zones, e, i + 1)
         IN [listed |-> (b.listed \/ rest.listed), calls |-> b.calls \o rest.calls]

\* The loop over d.dnsBLs from index i on: it stops at the first listing.
RECURSIVE dnsblLoop(_, _, _)
dnsblLoop(zones, e, i) ==
    IF i > Len(zones) THEN [listed |-> FALSE, calls |-> <<>>]
    ELSE LET b == blocked(e, zones[i]) IN
         IF b.listed THEN b
         ELSE LET rest == dnsblLoop(zones, e, i + 1) IN
              [listed |-> rest.listed, calls |-> b.calls \o rest.calls]

\* Mutant of hintToken: the token is generated for the recipient's address.
hintTokenRecipient(dd, key, e) ==
    Generate([Localpart |-> "mjl", Domain |-> "mox.example"], key, e.now)

\* subjectpass.Generate(d.msgFrom, subjectpassKey, time.Now())
hintToken(dd, key, e) == Generate(dd.msgFrom, key, e.now)

\* The condition for the permanent reject with a subjectpass hint.
giveSubjectpass(dd, subjectpassKey, method, dnsblocklisted, junkSubj) ==
    /\ subjectpassKey /= ""
    /\ dd.dmarcResult.Status = "pass"
    /\ method = methodNone
    /\ (dnsblocklisted \/ junkSubj)

\* Mutant of junkFilterError: an account without junk filter counts as an error.
junkFilterErrorOrNone(e) == e.junk.open /= "ok"

\* err != nil && err != store.ErrNoJunkFilter, after OpenJunkFilter
junkFilterError(e) == e.junk.open = "error"

\* From the junk filter on: content classification, DNSBLs, the final verdict.
\* cs are the calls made so far, key is subjectpassKey.
analyzeContent(dd, e, rand, rep, key, cs, mm) ==
    LET method == rep.method
        cs1 == Append(cs, Call("OpenJunkFilter"))
    IN
    IF junkFilterError(e)
    THEN Out(reject(C451LocalErr, SeSys3Other0, Msg(errorProcessing, NoToken),
                    "junkfilter-open-error", reasonJunkFilterError), cs1, mm, 0)
    ELSE IF e.junk.open = "ok" /\ e.junk.classifyErr
    THEN Out(reject(C451LocalErr, SeSys3Other0, Msg(errorProcessing, NoToken),
                    "classify-error", reasonJunkClassifyError),
             Append(cs1, Call("ClassifyMessageReader")), mm, 0)
    ELSE
    LET hasFilter == e.junk.open = "ok"
        j == IF hasFilter THEN jitterOf(rand) ELSE 0
        cs2 == IF hasFilter THEN Append(cs1, Call("ClassifyMessageReader")) ELSE cs1
        reason1 == IF ~hasFilter THEN reasonNoBadSignals
                   ELSE IF strictContent(dd, e, method, j) THEN reasonJunkContentStrict
                   ELSE reasonJunkContent
        accept1 == IF hasFilter THEN contentAccept(dd, e, method, j) ELSE TRUE
        junkSubj == IF hasFilter THEN junkSubjectpass(dd, e, method, j) ELSE FALSE
        bl == IF accept1 THEN dnsblLoop(dd.dnsBLs, e, 1)
              ELSE [listed |-> FALSE, calls |-> <<>>]
        accept2 == accept1 /\ ~bl.listed
        reason2 == IF bl.listed THEN reasonDNSBlocklisted ELSE reason1
        cs3 == cs2 \o bl.calls
    IN
    IF accept2 THEN Out(accepted(FALSE, FALSE, reasonNoBadSignals), cs3, mm, j)
    ELSE IF giveSubjectpass(dd, key, method, bl.listed, junkSubj)
    THEN Out(reject(C550MailboxUnavail, SePol7DeliveryUnauth1,
                    Msg(Explanation, <<hintToken(dd, key, e)>>),
                    NoErr, reasonGiveSubjectpass),
             Append(cs3, Call("subjectpass.Generate")), mm, j)
    ELSE Out(reject(C451LocalErr, SeSys3Other0, Msg(errorProcessing, NoToken),
                    NoErr, reason2), cs3, mm, j)

\* Mutant of subjectpassEnabled: a period of zero enables the check too.
subjectpassEnabledAlways(e) == e.conf.SubjectPassPeriod >= 0

\* conf.SubjectPass.Period > 0
subjectpassEnabled(e) == e.conf.SubjectPassPeriod > 0

\* The subjectpass token check, then the rest.
analyzeSubjectpass(dd, e, rand, rep, cs, mm) ==
    IF subjectpassEnabled(e)
    THEN LET cs1 == Append(cs, Call("Subjectpass")) IN
         IF e.subjectpass.keyErr
         THEN Out(reject(C451LocalErr, SeSys3Other0, Msg(errorProcessing, NoToken),
                         "subjectpass-key-error", reasonSubjectpassError), cs1, mm, 0)
         ELSE LET cs2 == Append(cs1, Call("subjectpass.Verify")) IN
              IF VerifyPass(dd.dataFile, e.subjectpass.key, e.conf.SubjectPassPeriod, e.now)
              THEN Out(accepted(FALSE, FALSE, reasonSubjectpass), cs2, mm, 0)
              ELSE analyzeContent(dd, e, rand, rep, e.subjectpass.key, cs2, mm)
    ELSE analyzeContent(dd, e, rand, rep, "", cs, mm)

\* Mutant of reputationAccept: a conclusive verdict always refuses.
reputationAcceptNever(rep) == FALSE

\* Mutant of reputationAccept: the negation is lost.
reputationAcceptJunk(rep) == rep.isjunk = "true"

\* A conclusive reputation accepts: !*isjunk.
reputationAccept(rep) == rep.isjunk = "false"

\* From the reputation lookup on.
analyzeReputation(dd, e, rand, rs, cs) ==
    LET dmarcReport == dmarcReportOf(dd, e)
        tlsReport == tlsReportOf(dd, e)
        cs1 == Append(cs, Call("MailboxFind"))
        cs2 == Append(cs1, Call("reputation"))
        mm == mailboxIDs(dd, e, rs)
        rep == e.reputation
    IN
    IF e.mailboxFindErr
    THEN Out(reject(C451LocalErr, SeSys3Other0, Msg(errorProcessing, NoToken),
                    "mailbox-find-error", reasonReputationError), cs1, ZeroM, 0)
    ELSE IF rep.err
    THEN Out(reject(C451LocalErr, SeSys3Other0, Msg(errorProcessing, NoToken),
                    "reputation-error", reasonReputationError), cs2, mm, 0)
    ELSE IF rep.conclusive
    THEN IF reputationAccept(rep)
         THEN Out(accepted(dmarcReport, tlsReport, rep.method), cs2, mm, 0)
         ELSE Out(reject(C451LocalErr, SeSys3Other0, Msg(errorProcessing, NoToken),
                         NoErr, rep.method), cs2, mm, 0)
    ELSE IF dmarcReport \/ tlsReport
    THEN Out(accepted(dmarcReport, tlsReport, reasonReporting), cs2, mm, 0)
    ELSE IF spfPolicyReject(dd, rep.method)
    THEN Out(reject(C451LocalErr, SeSys3Other0, Msg(errorProcessing, NoToken),
                    NoErr, reasonSPFPolicy), cs2, mm, 0)
    ELSE IF iprevReject(dd, rep)
    THEN Out(reject(C451LocalErr, SeSys3Other0, Msg(errorProcessing, NoToken),
                    NoErr, reasonIPrev), cs2, mm, 0)
    ELSE analyzeSubjectpass(dd, e, rand, rep, cs2, mm)

\* analyze(ctx, log, resolver, d); rand is what jitterRand.Float64() returns
\* if it is called.
analyze(dd, e, rand) ==
    LET rs == MessageRuleset(e) IN
    IF listAllow(dd, rs)
    THEN Out(accepted(FALSE, FALSE, reasonListAllow), <<>>, ZeroM, 0)
    ELSE IF dmarcPolicyReject(dd)
    THEN Out(reject(C550MailboxUnavail, SePol7MultiAuthFails26,
                    Msg("rejecting per dmarc policy", NoToken), NoErr,
                    reasonDMARCPolicy), <<>>, ZeroM, 0)
    ELSE analyzeReputation(dd, e, rand, rs, reportCalls(dd))

----------------------------------------------------------------------------
(* The deliveries and collaborator answers analyze is run on. *)

Domains == {"list.example", "other.example"}

\* All sequences over S of length at most n.
SeqsUpTo(S, n) == UNION {[1..k -> S] : k \in 0..n}

\* rs: no ruleset, a ruleset without list domain, a ruleset with a list domain.
NoRuleset == [present |-> FALSE, ListAllowDNSDomain |-> ZeroDomain, Mailbox |-> ""]
PlainRuleset == [present |-> TRUE, ListAllowDNSDomain |-> ZeroDomain, Mailbox |-> "Lists"]
ListRuleset == [present |-> TRUE, ListAllowDNSDomain |-> "list.example", Mailbox |-> "Lists"]
Rulesets == {NoRuleset, PlainRuleset, ListRuleset}

\* DKIM results: status and signing domain; l= unset and service tlsrpt allowed.
DKIMResults ==
    [Status : {"pass", "fail"}, Domain : Domains, Length : {-1}, ServiceTLSRPT : {TRUE}]

\* What the list allowance reads.
ListAllowAll ==
    [rs : Rulesets, mfv : BOOLEAN, mfd : Domains, dkim : SeqsUpTo(DKIMResults, MaxDKIM)]
ListAllowSome ==
    {[rs |-> NoRuleset, mfv |-> TRUE, mfd |-> "other.example", dkim |-> <<>>],
     [rs |-> ListRuleset, mfv |-> FALSE, mfd |-> "list.example",
      dkim |-> <<[Status |-> "fail", Domain |-> "list.example",
                  Length |-> -1, ServiceTLSRPT |-> TRUE]>>]}
ListAllowNone ==
    {[rs |-> NoRuleset, mfv |-> TRUE, mfd |-> "other.example", dkim |-> <<>>]}

\* dmarcUse and dmarcResult.
DMARCAll ==
    [use : BOOLEAN,
     result : {[Reject |-> FALSE, Status |-> "pass"], [Reject |-> FALSE, Status |-> "none"],
               [Reject |-> FALSE, Status |-> "fail"], [Reject |-> TRUE, Status |-> "fail"]}]
DMARCSome ==
    {[use |-> TRUE, result |-> [Reject |-> FALSE, Status |-> "pass"]],
     [use |-> TRUE, result |-> [Reject |-> FALSE, Status |-> "fail"]],
     [use |-> FALSE, result |-> [Reject |-> TRUE, Status |-> "fail"]]}
DMARCPassFail ==
    {[use |-> TRUE, result |-> [Reject |-> FALSE, Status |-> "pass"]],
     [use |-> TRUE, result |-> [Reject |-> FALSE, Status |-> "fail"]]}

\* d.m.MailFromValidation and d.iprevStatus.
ValidationsAll == {"pass", "none", "softfail", "fail"}
IPrevAll == {"pass", "fail", "temperror"}

\* The destination: its mailbox and whether it receives reports.
PlainDestination == [Mailbox |-> "", DMARCReports |-> FALSE, TLSReports |-> FALSE]
ReportDestination == [Mailbox |-> "", DMARCReports |-> TRUE, TLSReports |-> FALSE]

\* What the DMARC report parser and the configuration answer.
GoodDMARCReport(now) ==
    [parseErr |-> FALSE, domainErr |-> FALSE, configured |-> TRUE, end |-> now]
FutureDMARCReport(now) ==
    [parseErr |-> FALSE, domainErr |-> FALSE, configured |-> TRUE,
     end |-> now + ReportFutureSlack + 1]
NoTLSReport == [parseErr |-> TRUE, policies |-> <<>>, end |-> 0]

\* The ends of a report's date range: now, the latest end accepted, a second later.
ReportEnds(now) == {now, now + ReportFutureSlack, now + ReportFutureSlack + 1}

\* All answers for a DMARC report: it does not parse, its policy domain does
\* not parse, or it has a policy domain, configured or not, and an end.
DMARCReportAnswers(now) ==
    {[parseErr |-> TRUE, domainErr |-> FALSE, configured |-> FALSE, end |-> 0],
     [parseErr |-> FALSE, domainErr |-> TRUE, configured |-> FALSE, end |-> now]}
    \cup [parseErr : {FALSE}, domainErr : {FALSE}, configured : BOOLEAN,
          end : ReportEnds(now)]

\* The policy domains of a TLS report: a configured domain, a domain that is
\* not configured, a domain that does not parse.
PolicyDomains == {"local", "foreign", "invalid"}

\* All answers for a TLS report: it does not parse, or it has policies and
\* an end of its date range.
TLSReportAnswers(now) ==
    {NoTLSReport}
    \cup [parseErr : {FALSE}, policies : SeqsUpTo(PolicyDomains, MaxPolicies),
          end : {now, now + ReportFutureSlack + 1}]

\* The DKIM result TLS reporting asks for (of the From domain), and the
\* results that differ from it in one field.
ReportDKIM ==
    [Status |-> "pass", Domain |-> "other.example", Length |-> -1, ServiceTLSRPT |-> TRUE]
ReportDKIMResults ==
    {ReportDKIM,
     [ReportDKIM EXCEPT !.Status = "fail"],
     [ReportDKIM EXCEPT !.Domain = "list.example"],
     [ReportDKIM EXCEPT !.Length = 100],
     [ReportDKIM EXCEPT !.ServiceTLSRPT = FALSE]}

\* The destinations.
Destinations == [Mailbox : {""}, DMARCReports : BOOLEAN, TLSReports : BOOLEAN]

\* Destination and report together.
ReportsNone == {[dst |-> PlainDestination, future |-> FALSE]}
ReportsSome ==
    {[dst |-> PlainDestination, future |-> FALSE],
     [dst |-> ReportDestination, future |-> FALSE],
     [dst |-> ReportDestination, future |-> TRUE]}

\* The answers of reputation: an error, a conclusive verdict (isjunk set, some
\* history), or a non-conclusive one (isjunk possibly nil).
Reputation(err, isjunk, conclusive, method) ==
    [err |-> err, isjunk |-> isjunk, conclusive |-> conclusive, method |-> method]
ReputationAll ==
    {Reputation(TRUE, "nil", FALSE, methodNone)}
    \cup {Reputation(FALSE, j, TRUE, mt) :
            j \in {"true", "false"}, mt \in reputationMethods \ {methodNone}}
    \cup {Reputation(FALSE, j, FALSE, mt) :
            j \in {"nil", "true", "false"}, mt \in reputationMethods}
ReputationVerdicts ==
    {Reputation(FALSE, "true", TRUE, methodMsgfromFull),
     Reputation(FALSE, "false", TRUE, methodMsgfromDomain),
     Reputation(FALSE, "nil", FALSE, methodNone)}
ReputationWeak ==
    {Reputation(FALSE, "nil", FALSE, methodNone),
     Reputation(FALSE, "false", FALSE, methodNone),
     Reputation(FALSE, "false", FALSE, methodIP1),
     Reputation(FALSE, "false", FALSE, methodDKIMSPF),
     Reputation(FALSE, "false", FALSE, methodMsgfromDomain),
     Reputation(FALSE, "true", FALSE, methodMsgfromOrgDomain)}

\* A row of the recipient history: an address the account sent a message to,
\* and whether that was recently.
Recipient(localpart, domain, recent) ==
    [Localpart |-> localpart, Domain |-> domain, recent |-> recent]

\* reputation: the recipient history is consulted first, a recent message
\* of the account to the sender makes the verdict conclusive ham; otherwise
\* the verdict is that of the earlier messages in the account.
reputation(recipients, from, history) ==
    IF \E r \in recipients :
          r.Localpart = from.Localpart /\ r.Domain = from.Domain /\ r.recent
    THEN Reputation(FALSE, "false", TRUE, methodMsgfromFull)
    ELSE history

\* The recipient histories: empty, the sender recently or long ago, another
\* address of the sender's domain recently.
RecipientHistories ==
    {{}, {Recipient("remote", "other.example", TRUE)},
     {Recipient("remote", "other.example", FALSE)},
     {Recipient("someone", "other.example", TRUE)},
     {Recipient("remote", "other.example", FALSE), Recipient("remote", "list.example", TRUE)}}

\* The account's subjectpass period and key, and the token in the message:
\* none, a fresh one, an expired one, one of another key, one of another sender.
Periods == {0, 3600}
TokenKinds == {"none", "good", "expired", "wrongkey", "wrongfrom"}
accountKey == "k1"
SubjectTokens(kind, from, now, period) ==
    CASE kind = "none" -> <<>>
      [] kind = "good" -> <<Generate(from, accountKey, now - period)>>
      [] kind = "expired" -> <<Generate(from, accountKey, now - period - 1)>>
      [] kind = "wrongkey" -> <<Generate(from, "k2", now - period)>>
      [] kind = "wrongfrom" ->
            <<Generate([Localpart |-> "other", Domain |-> from.Domain], accountKey, now - period)>>
SubjectpassAll == [period : Periods, keyErr : BOOLEAN, token : TokenKinds]
SubjectpassSome ==
    {[period |-> 0, keyErr |-> FALSE, token |-> "none"],
     [period |-> 3600, keyErr |-> FALSE, token |-> "good"]}
SubjectpassOnOff ==
    {[period |-> 0, keyErr |-> FALSE, token |-> "none"],
     [period |-> 3600, keyErr |-> FALSE, token |-> "none"]}

\* The junk filter: absent, failing to open, failing to classify, or
\* classifying the message with a probability against its threshold.
Junk(open, classifyErr, threshold, prob) ==
    [open |-> open, classifyErr |-> classifyErr, Threshold |-> threshold,
     contentProb |-> prob]
Thresholds == {200, 270, 950}
Probs == {10, 150, 230, 250, 260, 300, 760, 900, 940, 990}
JunkAll ==
    {Junk("none", FALSE, 950, 0), Junk("error", FALSE, 950, 0), Junk("ok", TRUE, 950, 0)}
    \cup {Junk("ok", FALSE, t, p) : t \in Thresholds, p \in Probs}
JunkSome ==
    {Junk("none", FALSE, 950, 0), Junk("ok", FALSE, 950, 100),
     Junk("ok", FALSE, 950, 900), Junk("ok", FALSE, 950, 990)}
JunkSpam == {Junk("ok", FALSE, 950, 990)}

\* What jitterRand.Float64() may return, in thousandths: a value in [0, 1).
Rands == {0, 500, 990}

\* The configured DNSBL zones (numbered in configured order) and what the
\* resolver answers for each: the health check, and the lookup's status.
ZoneStates == [healthy : BOOLEAN, status : {"pass", "fail", "temperror"}]
Blocklists(n) == {[zones |-> [i \in 1..n |-> i], dnsbl |-> f] : f \in [1..n -> ZoneStates]}
BlocklistsAll == UNION {Blocklists(n) : n \in 0..MaxZones}
BlocklistsSome ==
    {[zones |-> <<>>, dnsbl |-> <<>>],
     [zones |-> <<1>>, dnsbl |-> <<[healthy |-> TRUE, status |-> "fail"]>>],
     [zones |-> <<1>>, dnsbl |-> <<[healthy |-> FALSE, status |-> "fail"]>>]}

\* The clock.
Nows == {5000}

\* The delivery.
Delivery(li, dm, val, ip, rpt, sp, bl, now) ==
    LET from == [Localpart |-> "remote", Domain |-> "other.example"] IN
    [m |-> [MailFromValidated |-> li.mfv, MailFromDomain |-> li.mfd,
            MailFromValidation |-> val],
     dataFile |-> [from |-> from,
                   tokens |-> SubjectTokens(sp.token, from, now, sp.period)],
     destination |-> rpt.dst,
     msgFrom |-> from,
     dnsBLs |-> bl.zones,
     dmarcUse |-> dm.use,
     dmarcResult |-> dm.result,
     dkimResults |-> li.dkim,
     iprevStatus |-> ip]

\* The collaborators' answers.
Environment(li, rpt, rep, sp, jf, bl, now) ==
    [rs |-> li.rs,
     dmarcrpt |-> IF rpt.future THEN FutureDMARCReport(now) ELSE GoodDMARCReport(now),
     tlsrpt |-> NoTLSReport,
     mailboxes |-> {"Inbox"},
     mailboxFindErr |-> FALSE,
     reputation |-> rep,
     conf |-> [SubjectPassPeriod |-> sp.period, RejectsMailbox |-> ""],
     subjectpass |-> [keyErr |-> sp.keyErr, key |-> accountKey],
     junk |-> jf,
     dnsbl |-> bl.dnsbl,
     now |-> now]

----------------------------------------------------------------------------
(* The account database and the store's operations on it. *)

\* The names of the mailboxes, and the IDs MailboxFind gives them.
MailboxNames == {"Inbox", "Lists", "Work"}
MailboxID(name) ==
    CASE name = "Inbox" -> 1
      [] name = "Lists" -> 2
      [] OTHER -> 3

\* A mailbox and a message of the database.
Mailbox(id, name, uidvalidity, uidnext) ==
    [ID |-> id, Name |-> name, UIDValidity |-> uidvalidity, UIDNext |-> uidnext]
Message(id, mailboxID, destinedID, uid, file) ==
    [ID |-> id, MailboxID |-> mailboxID, MailboxDestinedID |-> destinedID,
     UID |-> uid, file |-> file]

\* The largest of a set of numbers, zero for the empty set.
Max(S) == IF S = {} THEN 0 ELSE CHOOSE x \in S : \A y \in S : y <= x

\* A database: hasNext is whether the NextUIDValidity record exists; store
\* is whether the store made the database (it may also be found on disk,
\* restored from a backup).  The last IDs are the sequences of the tables.
Account(mailboxes, messages, hasNext, next, store) ==
    [mailboxes |-> mailboxes, messages |-> messages,
     hasNextUIDValidity |-> hasNext, NextUIDValidity |-> next, store |-> store,
     lastMailboxID |-> Max({mb.ID : mb \in mailboxes}),
     lastMessageID |-> Max({msg.ID : msg \in messages})]

\* The n-th element of a sequence of the names in a set, in the order of their IDs.
RECURSIVE NamesInOrder(_)
NamesInOrder(names) ==
    IF names = {} THEN <<>>
    ELSE LET first == CHOOSE n \in names : \A o \in names : MailboxID(n) <= MailboxID(o)
         IN <<first>> \o NamesInOrder(names \ {first})

\* The database of an account whose mailboxes were created in the order of
\* their IDs, without messages.
AccountOf(names) ==
    LET order == NamesInOrder(names) IN
    Account({Mailbox(MailboxID(order[i]), order[i], i, 1) : i \in DOMAIN order},
            {}, TRUE, Len(order) + 1, TRUE)

\* Account.NextUIDValidity: the next uid validity is handed out and bumped.
bumpUIDValidity(a) == [a EXCEPT !.NextUIDValidity = @ + 1]

\* MailboxCreate: the mailbox gets the next uid validity and uid_next 1.
mailboxCreate(a, name) ==
    [bumpUIDValidity(a) EXCEPT
        !.mailboxes = @ \cup {Mailbox(a.lastMailboxID + 1, name, a.NextUIDValidity, 1)},
        !.lastMailboxID = @ + 1]

\* MailboxFind in the database: the mailboxes of the name (none or one).
mailboxesNamed(a, name) == {mb \in a.mailboxes : mb.Name = name}

\* MailboxEnsure: the mailbox is created unless it exists.
mailboxEnsure(a, name) ==
    IF mailboxesNamed(a, name) = {} THEN mailboxCreate(a, name) ELSE a

\* MailboxRename: the mailbox gets the new name; the next uid validity is bumped.
mailboxRename(a, mb, name) ==
    [bumpUIDValidity(a) EXCEPT
        !.mailboxes = (@ \ {mb}) \cup {[mb EXCEPT !.Name = name]}]

\* MailboxDestroy: the mailbox and its messages go; the next uid validity is bumped.
mailboxDestroy(a, mb) ==
    [bumpUIDValidity(a) EXCEPT
        !.mailboxes = @ \ {mb},
        !.messages = {msg \in @ : msg.MailboxID /= mb.ID}]

\* Deliver: the message gets the mailbox's uid_next, which is incremented,
\* and its file is written.
deliver(a, mb, destinedID) ==
    [a EXCEPT
        !.mailboxes = (@ \ {mb}) \cup {[mb EXCEPT !.UIDNext = @ + 1]},
        !.messages = @ \cup {Message(a.lastMessageID + 1, mb.ID, destinedID, mb.UIDNext, TRUE)},
        !.lastMessageID = @ + 1]

\* DeliverMailbox: Deliver to the mailbox of the name, created if missing.
deliverMailbox(a, name, destinedID) ==
    LET a1 == mailboxEnsure(a, name)
        mb == CHOOSE x \in a1.mailboxes : x.Name = name
    IN deliver(a1, mb, destinedID)

----------------------------------------------------------------------------
(* verifydata's check of an account database. *)

errMissingNextUIDValidity == "missing nextuidvalidity"
errUIDValidity == "inconsistent uidvalidity for mailbox/account"
errUIDNext == "inconsistent uidnext for message/mailbox"
errMessageFile == "checking if file exists"

\* uidvalidity.Next after db.Get: zero when the record is missing.
uidvalidityNext(a) == IF a.hasNextUIDValidity THEN a.NextUIDValidity ELSE 0

\* mailboxUIDNexts[id]: zero for an ID that is not of a mailbox.
mailboxUIDNexts(a, id) ==
    IF \E mb \in a.mailboxes : mb.ID = id
    THEN (CHOOSE mb \in a.mailboxes : mb.ID = id).UIDNext
    ELSE 0

\* Mutant of checkAccount: a uid equal to the mailbox's uid_next is let through.
checkAccountOffByOne(a) ==
    (IF a.hasNextUIDValidity THEN {} ELSE {errMissingNextUIDValidity})
    \cup (IF \E mb \in a.mailboxes : mb.UIDValidity >= uidvalidityNext(a)
          THEN {errUIDValidity} ELSE {})
    \cup (IF \E msg \in a.messages : msg.UID > mailboxUIDNexts(a, msg.MailboxID)
          THEN {errUIDNext} ELSE {})
    \cup (IF \E msg \in a.messages : ~msg.file THEN {errMessageFile} ELSE {})

\* The errors checkAccount reports for the messages and mailboxes of a database.
checkAccount(a) ==
    (IF a.hasNextUIDValidity THEN {} ELSE {errMissingNextUIDValidity})
    \cup (IF \E mb \in a.mailboxes : mb.UIDValidity >= uidvalidityNext(a)
          THEN {errUIDValidity} ELSE {})
    \cup (IF \E msg \in a.messages : msg.UID >= mailboxUIDNexts(a, msg.MailboxID)
          THEN {errUIDNext} ELSE {})
    \cup (IF \E msg \in a.messages : ~msg.file THEN {errMessageFile} ELSE {})

\* What verifydata leaves: whether it ran, the errors, and fail.
NotChecked == [ran |-> FALSE, errors |-> {}, fail |-> FALSE]
Checked(errors) == [ran |-> TRUE, errors |-> errors, fail |-> errors /= {}]

----------------------------------------------------------------------------
(* The control socket, the data directory and the queue at rest. *)

\* No data stream is in progress.
NoStream == [mode |-> "none"]
\* No connection to the control socket.
NoConnections == <<>>
\* No queue.
NoQueue == [mode |-> "none"]
NoSTS == [mode |-> "none"]
NoLocks == [mode |-> "none"]

----------------------------------------------------------------------------
(* Bytes and decimal numbers. *)

CR == "\r"
LF == "\n"
\* The bytes of the model: CR, LF, a digit and a letter.
Bytes == {CR, LF, "0", "a"}
CRLFCRLF == <<CR, LF, CR, LF>>

Digits == <<"0", "1", "2", "3", "4", "5", "6", "7", "8", "9">>
\* A number in decimal, as a string (%d).
RECURSIVE Itoa(_)
Itoa(n) == IF n < 10 THEN Digits[n + 1] ELSE Itoa(n \div 10) \o Digits[(n % 10) + 1]

\* All sequences of bytes of length at most n.
RECURSIVE ByteSeqs(_)
ByteSeqs(n) ==
    IF n = 0 THEN {<<>>}
    ELSE LET shorter == ByteSeqs(n - 1)
         IN shorter \cup {Append(q, b) : q \in {x \in shorter : Len(x) = n - 1}, b \in Bytes}

\* All ways to cut a sequence into non-empty chunks, in order.
RECURSIVE Chunkings(_)
Chunkings(q) ==
    IF q = <<>> THEN {<<>>}
    ELSE UNION {{<<SubSeq(q, 1, k)>> \o rest : rest \in Chunkings(SubSeq(q, k + 1, Len(q)))} :
                   k \in 1..Len(q)}

----------------------------------------------------------------------------
(* message.Writer: it writes through to the file and keeps the size and *)
(* whether the end of a header section, CRLF CRLF, went by.             *)

NUL == "nul"
\* A new message.Writer on an empty file.
NewWriter == [HaveHeaders |-> FALSE, Size |-> 0, tail |-> <<NUL, NUL, NUL>>, file |-> <<>>]

\* Writer.Write(buf): the last three bytes of the earlier writes are kept in
\* tail, so that a CRLF CRLF cut by the writes is seen too.
writerWrite(w, buf) ==
    LET all == w.tail \o buf
        scan == ~w.HaveHeaders /\ Len(buf) > 0
        found == \E i \in 1..Len(buf) :
                    /\ all[i + 3] = LF
                    /\ all[i] = CR /\ all[i + 1] = LF /\ all[i + 2] = CR
    IN [HaveHeaders |-> w.HaveHeaders \/ (scan /\ found),
        Size |-> w.Size + Len(buf),
        tail |-> IF scan THEN SubSeq(all, Len(all) - 2, Len(all)) ELSE w.tail,
        file |-> w.file \o buf]

\* io.Copy(mw, reader): every slice the reader returns is written.
RECURSIVE copyTo(_, _)
copyTo(w, reads) ==
    IF reads = <<>> THEN w ELSE copyTo(writerWrite(w, Head(reads)), Tail(reads))

----------------------------------------------------------------------------
(* The files of the data directory. *)

\* Message files per directory: 8k.
ShardSize == 8192
\* store.MessagePath: <id / 8192>/<id>.
MessagePath(id) == <<Itoa(id \div ShardSize), Itoa(id)>>

\* A file: its path below the data directory, and its bytes.
File(path, data) == [path |-> path, data |-> data]

\* The account of the model and its address.
AccountName == "mjl"
AccountAddress == "mjl@mox.example"
\* The message directory of an account.
MsgDir(name) == <<"accounts", name, "msg">>

----------------------------------------------------------------------------
(* The control socket: a connection as the server sees it. *)

\* servectl: the server greets with the protocol version.  todo is the
\* number of commands the client sends on the connection; log holds, for
\* every command served, the command, where its handler failed and the
\* lines it wrote.
NewConnection(todo) ==
    [out |-> <<"ctlv0">>, served |-> 0, closed |-> FALSE, todo |-> todo, log |-> <<>>]

\* A command and the place where its handler fails ("none" if nowhere).
Request(cmd, fault) == [cmd |-> cmd, fault |-> fault]

\* Mutant of afterCommand: the connection stays open after a failure.
afterCommandOpen(conn, req, lines, fails) ==
    [out |-> conn.out \o lines, served |-> conn.served + 1, closed |-> FALSE,
     todo |-> conn.todo - 1,
     log |-> Append(conn.log, [cmd |-> req.cmd, fault |-> req.fault, lines |-> lines])]

\* One servectlcmd call read a command and wrote the lines; a failing call
\* panics out of the loop of servectl, whose deferred conn.Close() closes
\* the connection.
afterCommand(conn, req, lines, fails) ==
    [out |-> conn.out \o lines, served |-> conn.served + 1, closed |-> fails,
     todo |-> conn.todo - 1,
     log |-> Append(conn.log, [cmd |-> req.cmd, fault |-> req.fault, lines |-> lines])]

\* The server can read a command from the connection.
CanServe(c) == c \in DOMAIN ctl /\ ~ctl[c].closed /\ ctl[c].todo > 0

\* ctl.xcheck(err, msg) with an error: one line, msg and the error.
ErrorLine(msg) == msg \o ": error"

----------------------------------------------------------------------------
(* servectlcmd, case "deliver". *)

\* The places where the handler may fail.
DeliverFaults == {"none", "lookup destination address", "creating temporary message file",
                  "syncing message to storage", "delivering message", "closing account"}

\* Mutant of messageSize: the prefix is not counted.
messageSizeWithoutPrefix(msgPrefix, mw) == mw.Size

\* Size: int64(len(msgPrefix)) + mw.Size
messageSize(msgPrefix, mw) == Len(msgPrefix) + mw.Size

\* msgPrefix: CRLF CRLF unless the writer saw the end of a header section.
messagePrefix(mw) == IF ~mw.HaveHeaders THEN CRLFCRLF ELSE <<>>

\* Account.Deliver of a message with its size and prefix to the Inbox: the
\* store record, and the message file at its path.
deliverFile(a, size, msgPrefix) ==
    LET mb == CHOOSE x \in a.mailboxes : x.Name = "Inbox"
        a1 == deliver(a, mb, 0)
        id == a1.lastMessageID
    IN [a1 EXCEPT !.messages =
            {IF msg.ID = id
             THEN msg @@ [Size |-> size, MsgPrefix |-> msgPrefix]
             ELSE msg : msg \in @}]

\* The handler: to is the address line, reads are the slices the stream's
\* reader returns, fault is where it fails.  It gives the account database,
\* the files, the lines written and whether the handler failed.
ctlDeliver(a, files, to, reads, fault) ==
    LET mw == copyTo(NewWriter, reads)
        acks == [i \in 1..Len(reads) |-> "ok"]
        msgPrefix == messagePrefix(mw)
        size == messageSize(msgPrefix, mw)
        a1 == deliverFile(a, size, msgPrefix)
        file == File(MsgDir(AccountName) \o MessagePath(a1.lastMessageID), mw.file)
        failed(lines, msg) == [acc |-> a, disk |-> files, fails |-> TRUE,
                               lines |-> lines \o <<ErrorLine(msg)>>]
    IN IF to /= AccountAddress \/ fault = "lookup destination address"
       THEN failed(<<>>, "lookup destination address")
       ELSE IF fault = "creating temporary message file"
       THEN failed(<<>>, fault)
       ELSE IF fault = "syncing message to storage"
       THEN failed(<<"ok">> \o acks, fault)
       ELSE IF fault = "delivering message"
       THEN failed(<<"ok">> \o acks, fault)
       ELSE IF fault = "closing account"
       THEN [acc |-> a1, disk |-> files \cup {file}, fails |-> TRUE,
             lines |-> <<"ok">> \o acks \o <<ErrorLine(fault)>>]
       ELSE [acc |-> a1, disk |-> files \cup {file}, fails |-> FALSE,
             lines |-> <<"ok">> \o acks \o <<"ok">>]

----------------------------------------------------------------------------
(* verifydata's walk of the queue and message directories. *)

errQueueFile == "unrecognized file in queue directory"
errAccountFile == "unrecognized file in account message directory"

\* The queue directory.
QueueDir == <<"queue">>

\* strconv.ParseInt(s, 10, 64) succeeds, for the names of the model.
ParseIntOK(s) == \E n \in 0..MaxFileNumber : Itoa(n) = s

\* The path of a file relative to a directory it is in.
Below(dir, path) == Len(path) > Len(dir) /\ SubSeq(path, 1, Len(dir)) = dir
Relative(dir, path) == SubSeq(path, Len(dir) + 1, Len(path))

\* Mutant of walkQueue: the files that belong to messages are not skipped.
walkQueueNotSeen(p, seen, fix) ==
    IF p = <<"index.db">> THEN "skip"
    ELSE IF Len(p) = 1 THEN "warning"
    ELSE IF Len(p) >= 3 /\ ~ParseIntOK(p[2]) THEN "warning"
    ELSE IF ~fix THEN "error"
    ELSE "move"

\* What the walk does with a file of the queue directory, p its path below
\* the directory, seen the paths of the messages in the database.
walkQueue(p, seen, fix) ==
    IF p = <<"index.db">> THEN "skip"
    ELSE IF p \in seen THEN "skip"
    ELSE IF Len(p) = 1 THEN "warning"
    ELSE IF Len(p) >= 3 /\ ~ParseIntOK(p[2]) THEN "warning"
    ELSE IF ~fix THEN "error"
    ELSE "move"

\* What the walk does with a file of an account's message directory.
walkMsg(p, seen, fix) ==
    IF p \in seen THEN "skip"
    ELSE IF Len(p) = 1 THEN "warning"
    ELSE IF ~fix THEN "error"
    ELSE "move"

\* checkQueue: the messages of the queue database without file, then the walk.
checkQueue(files, ids, fix) ==
    LET seen == {MessagePath(id) : id \in ids}
        paths == {f.path : f \in files}
        inDir == {f \in files : Below(QueueDir, f.path)}
        what(f) == walkQueue(Relative(QueueDir, f.path), seen, fix)
    IN [errors |-> (IF \E p \in seen : QueueDir \o p \notin paths THEN {errMessageFile} ELSE {})
                   \cup (IF \E f \in inDir : what(f) = "error" THEN {errQueueFile} ELSE {}),
        warnings |-> {f.path : f \in {x \in inDir : what(x) \in {"warning", "move"}}},
        moved |-> {f \in inDir : what(f) = "move"}]

\* The walk of checkAccount over the message directory of the account.
checkAccountFiles(files, a, name, fix) ==
    LET seen == {MessagePath(msg.ID) : msg \in a.messages}
        inDir == {f \in files : Below(MsgDir(name), f.path)}
        what(f) == walkMsg(Relative(MsgDir(name), f.path), seen, fix)
    IN [errors |-> IF \E f \in inDir : what(f) = "error" THEN {errAccountFile} ELSE {},
        warnings |-> {f.path : f \in {x \in inDir : what(x) \in {"warning", "move"}}},
        moved |-> {f \in inDir : what(f) = "move"}]

\* os.Rename(path, dataDir/moved/path) for the files to move.
moveAway(files, moved) ==
    (files \ moved) \cup {File(<<"moved">> \o f.path, f.data) : f \in moved}

\* cmdVerifydata on a data directory with a queue and one account.
cmdVerifydata(files, ids, a, fix) ==
    LET q == checkQueue(files, ids, fix)
        am == checkAccountFiles(files, a, AccountName, fix)
        errors == q.errors \cup checkAccount(a) \cup am.errors
    IN [disk |-> moveAway(files, q.moved \cup am.moved),
        checked |-> Checked(errors) @@ [warnings |-> q.warnings \cup am.warnings,
                                        fix |-> fix]]

\* A queue database with the messages of the IDs, none attempted.
QueueDB(ids) == [mode |-> "db", ids |-> ids]

----------------------------------------------------------------------------
(* ctlwriter and ctlreader: a data stream on the control socket. *)

\* fmt.Fprintf(conn, "%d\n", n): the digits of n and a newline, as bytes.
RECURSIVE FormatInt(_)
FormatInt(n) ==
    IF n < 10 THEN <<Digits[n + 1]>> ELSE Append(FormatInt(n \div 10), Digits[(n % 10) + 1])

\* The value of a digit.
DigitValue(b) == (CHOOSE i \in DOMAIN Digits : Digits[i] = b) - 1

\* The value of a line of digits.
RECURSIVE parseDigits(_)
parseDigits(line) ==
    IF Len(line) = 1 THEN DigitValue(line[1])
    ELSE 10 * parseDigits(SubSeq(line, 1, Len(line) - 1)) + DigitValue(line[Len(line)])
AllDigits(line) ==
    line /= <<>> /\ \A i \in DOMAIN line : \E j \in DOMAIN Digits : Digits[j] = line[i]
\* strconv.ParseInt(line, 10, 32): digits after an optional sign.
ParseInt(line) ==
    IF AllDigits(line) THEN [ok |-> TRUE, n |-> parseDigits(line)]
    ELSE IF line /= <<>> /\ line[1] \in {"+", "-"} /\ AllDigits(Tail(line))
    THEN [ok |-> TRUE,
          n |-> IF line[1] = "-" THEN 0 - parseDigits(Tail(line)) ELSE parseDigits(Tail(line))]
    ELSE [ok |-> FALSE, n |-> 0]

\* bufio.Reader.ReadString('\n') on the bytes that arrived: the line
\* without its newline, and the bytes after it.
HasLine(q) == \E i \in DOMAIN q : q[i] = LF
FirstLF(q) == CHOOSE i \in DOMAIN q : q[i] = LF /\ \A j \in 1..(i - 1) : q[j] /= LF
ReadString(q) ==
    [line |-> SubSeq(q, 1, FirstLF(q) - 1), rest |-> SubSeq(q, FirstLF(q) + 1, Len(q))]

Min(a, b) == IF a < b THEN a ELSE b

\* A stream of the bytes data: the writer has handed over the first sent
\* bytes and is at wpc; c2s are the bytes on the connection to the reader,
\* s2c the lines on the way back; npending and err are the reader's fields,
\* got the bytes its Reads returned, last what the last Read returned,
\* announced the number of the last count line, xerror the line the reader
\* failed with, empty the Writes of no bytes.
Stream(data) ==
    [mode |-> "stream", data |-> data, sent |-> 0, wpc |-> "idle",
     c2s |-> <<>>, s2c |-> <<>>, npending |-> 0, err |-> "nil",
     got |-> <<>>, last |-> [n |-> 0, err |-> "nil"], rpc |-> "idle",
     announced |-> 0, xerror |-> <<>>, empty |-> 0]

\* ctlwriter.Write(buf) up to its read of the response: the count line and
\* the bytes are written.
ctlwriterWrite(s, buf) ==
    [s EXCEPT !.c2s = @ \o FormatInt(Len(buf)) \o <<LF>> \o buf,
              !.sent = @ + Len(buf),
              !.wpc = "response"]

\* ctlwriter.Write from its read of the response on: anything but ok is
\* an error.
ctlwriterResponse(s) ==
    [s EXCEPT !.s2c = Tail(@),
              !.wpc = IF Head(s.s2c) = "ok" THEN "idle" ELSE "failed"]

\* ctlwriter.xclose
ctlwriterClose(s) == [s EXCEPT !.c2s = @ \o <<"0", LF>>, !.wpc = "closed"]

\* Mutant of ctlreaderRead: the read is taken to have filled the buffer.
ctlreaderReadFull(s, len, n) ==
    IF s.err /= "nil" THEN [s EXCEPT !.last = [n |-> 0, err |-> s.err]]
    ELSE LET fresh == s.npending = 0
             l == ReadString(s.c2s)
             count == ParseInt(l.line)
             pending == IF fresh THEN count.n ELSE s.npending
             rest == IF fresh THEN l.rest ELSE s.c2s
             rn == Min(len, pending)
             nn == Min(n, rn)
         IN IF fresh /\ ~count.ok
            THEN [s EXCEPT !.c2s = l.rest, !.rpc = "failed", !.xerror = l.line]
            ELSE IF fresh /\ count.n = 0
            THEN [s EXCEPT !.c2s = l.rest, !.err = "EOF", !.last = [n |-> 0, err |-> "EOF"],
                           !.announced = 0]
            ELSE IF rn < 0
            THEN [s EXCEPT !.c2s = l.rest, !.npending = pending, !.announced = count.n,
                           !.rpc = "panicked"]
            ELSE [s EXCEPT !.c2s = SubSeq(rest, nn + 1, Len(rest)),
                           !.announced = IF fresh THEN count.n ELSE @,
                           !.npending = pending - rn,
                           !.got = @ \o SubSeq(rest, 1, nn),
                           !.last = [n |-> nn, err |-> "nil"],
                           !.s2c = IF pending - rn = 0 THEN Append(@, "ok") ELSE @]

\* ctlreader.Read(buf) with len(buf) = len, the buffered reader returning
\* n bytes of those that arrived.
ctlreaderRead(s, len, n) ==
    IF s.err /= "nil" THEN [s EXCEPT !.last = [n |-> 0, err |-> s.err]]
    ELSE LET fresh == s.npending = 0
             l == ReadString(s.c2s)
             count == ParseInt(l.line)
             pending == IF fresh THEN count.n ELSE s.npending
             rest == IF fresh THEN l.rest ELSE s.c2s
             rn == Min(len, pending)
             nn == Min(n, rn)
         IN IF fresh /\ ~count.ok
            THEN [s EXCEPT !.c2s = l.rest, !.rpc = "failed", !.xerror = l.line]
            ELSE IF fresh /\ count.n = 0
            THEN [s EXCEPT !.c2s = l.rest, !.err = "EOF", !.last = [n |-> 0, err |-> "EOF"],
                           !.announced = 0]
            ELSE IF rn < 0
            THEN [s EXCEPT !.c2s = l.rest, !.npending = pending, !.announced = count.n,
                           !.rpc = "panicked"]
            ELSE [s EXCEPT !.c2s = SubSeq(rest, nn + 1, Len(rest)),
                           !.announced = IF fresh THEN count.n ELSE @,
                           !.npending = pending - nn,
                           !.got = @ \o SubSeq(rest, 1, nn),
                           !.last = [n |-> nn, err |-> "nil"],
                           !.s2c = IF pending - nn = 0 THEN Append(@, "ok") ELSE @]

\* The bytes that arrived for a Read: those after the count line if the
\* Read starts with one.
Arrived(s) ==
    IF s.npending > 0 THEN s.c2s
    ELSE IF HasLine(s.c2s) THEN ReadString(s.c2s).rest ELSE <<>>

----------------------------------------------------------------------------
(* servectlcmd: the commands whose handlers change nothing of the model. *)

\* What the handler of a command answers with after ok, as a data stream:
\* the chunks it writes.
ResponseStream(cmd) ==
    CASE cmd = "queue" -> <<"queue:\n", "(empty)\n">>
      [] cmd = "queuedump" -> <<"message">>
      [] cmd = "loglevels" -> <<"(default): info\n">>
      [] OTHER -> <<>>

\* The places where a handler fails through ctl.xcheck, with the message
\* of the error line.
CheckFaults(cmd) ==
    CASE cmd = "setaccountpassword" -> {"open account", "setting password", "closing account"}
      [] cmd = "queue" -> {"listing queue"}
      [] cmd = "queuekick" -> {"parsing id", "kicking queue"}
      [] cmd = "queuedrop" -> {"parsing id", "dropping messages from queue"}
      [] cmd = "queuedump" -> {"parsing id", "opening message"}
      [] cmd = "domainadd" -> {"parsing domain", "adding domain"}
      [] cmd = "domainrm" -> {"parsing domain", "removing domain"}
      [] cmd = "accountadd" -> {"adding account"}
      [] cmd = "accountrm" -> {"removing account"}
      [] cmd = "addressadd" -> {"adding address"}
      [] cmd = "addressrm" -> {"removing address"}
      [] OTHER -> {}

\* The commands, and for each the places where its handler fails: through
\* ctl.xcheck, through ctl.xerror ("bad level"), or in its data stream when
\* the peer answers a chunk with an error ("stream").
Commands ==
    {"stop", "setaccountpassword", "queue", "queuekick", "queuedrop", "queuedump",
     "domainadd", "domainrm", "accountadd", "accountrm", "addressadd", "addressrm",
     "loglevels", "setloglevels", "bogus"}
Faults(cmd) ==
    {"none"} \cup CheckFaults(cmd)
    \cup (IF cmd = "setloglevels" THEN {"bad level"} ELSE {})
    \cup (IF ResponseStream(cmd) /= <<>> THEN {"stream"} ELSE {})

\* ctlwriter.Write for each chunk, then xclose: the count line and the
\* bytes of each chunk, and the line 0.
RECURSIVE streamLines(_)
streamLines(chunks) ==
    IF chunks = <<>> THEN <<"0">>
    ELSE <<Itoa(Len(Head(chunks))), Head(chunks)>> \o streamLines(Tail(chunks))

\* servectlcmd for a command and a fault: the lines written, whether the
\* handler panicked, whether the process exited.
servectlcmd(cmd, fault) ==
    LET wrote(lines, fails) == [lines |-> lines, fails |-> fails, exits |-> FALSE]
        stream == ResponseStream(cmd)
    IN IF cmd = "stop" THEN [lines |-> <<>>, fails |-> FALSE, exits |-> TRUE]
       ELSE IF cmd \notin Commands \/ cmd = "bogus"
       THEN wrote(<<"unrecognized command">>, FALSE)
       ELSE IF fault = "parsing id" /\ cmd \in {"queuekick", "queuedrop"}
       THEN wrote(<<"0", ErrorLine(fault)>>, TRUE)
       ELSE IF fault \in CheckFaults(cmd) THEN wrote(<<ErrorLine(fault)>>, TRUE)
       ELSE IF fault = "bad level" THEN wrote(<<fault>>, TRUE)
       ELSE IF fault = "stream"
       THEN wrote(<<"ok", Itoa(Len(stream[1])), stream[1]>>, TRUE)
       ELSE IF stream /= <<>> THEN wrote(<<"ok">> \o streamLines(stream), FALSE)
       ELSE IF cmd \in {"queuekick", "queuedrop"} THEN wrote(<<"0", "ok">>, FALSE)
       ELSE wrote(<<"ok">>, FALSE)

\* os.Exit: the process is gone, and its connections with it.
exited(conns) == [c \in DOMAIN conns |-> [conns[c] EXCEPT !.closed = TRUE]]

----------------------------------------------------------------------------
(* The delivery queue: messages waiting for delivery, with the time of the
   next attempt.  Times are in seconds. *)

\* The first retry comes 7.5 minutes after the first attempt, the longest
\* wait is 24 hours.
firstBackoff == 450
maxBackoff == 24 * 60 * 60

RECURSIVE Pow2(_)
Pow2(n) == IF n = 0 THEN 1 ELSE 2 * Pow2(n - 1)

\* The mutant of backoff: the interval does not grow.
backoffFlat(attempts) == firstBackoff

\* The wait after a failed attempt, the message having failed `attempts'
\* times before.
backoff(attempts) == Min(firstBackoff * Pow2(attempts), maxBackoff)

Path(localpart, domain) ==
    IF localpart = "" /\ domain = "" THEN "" ELSE localpart \o "@" \o domain
senderPath(qm) == Path(qm.SenderLocalpart, qm.SenderDomain)
rcptPath(qm) == Path(qm.RecipientLocalpart, qm.RecipientDomain)

\* A message of the queue.  Attempted holds the times of its failed
\* attempts, the last of them being last_attempt; Leased counts the
\* attempts running for it; DSNFor is the message a DSN reports on.
QueueMessage(id, senderLocalpart, senderDomain, rcptLocalpart, rcptDomain, now, dsnFor) ==
    [ID |-> id, SenderLocalpart |-> senderLocalpart, SenderDomain |-> senderDomain,
     RecipientLocalpart |-> rcptLocalpart, RecipientDomain |-> rcptDomain,
     Attempts |-> 0, NextAttempt |-> now, Attempted |-> <<>>, LastError |-> "",
     Transport |-> "", Leased |-> 0, DSNFor |-> dsnFor]

\* An empty queue at time 0, with the number of messages that will be
\* submitted and the number of attempts after which a message is given up.
NewQueue(room, max) ==
    [mode |-> "queue", now |-> 0, msgs |-> {}, nextID |-> 1, room |-> room,
     max |-> max, gone |-> {}, last |-> [op |-> "init"]]

msgOf(q, id) == CHOOSE qm \in q.msgs : qm.ID = id
Queued(q) == {qm.ID : qm \in q.msgs}

\* queue.Add: the message is queued for an immediate first attempt.
queueAdd(q, senderLocalpart, senderDomain, rcptLocalpart, rcptDomain, dsnFor) ==
    [q EXCEPT !.msgs = @ \cup {QueueMessage(q.nextID, senderLocalpart, senderDomain,
                                   rcptLocalpart, rcptDomain, q.now, dsnFor)},
              !.nextID = @ + 1]

\* An absent transport, and a given one.
nil == <<>>
Ptr(s) == <<s>>

\* The mutant of queueKick: only messages that are not due yet are kicked.
queueKickWaiting(q, id, todomain, recipient, transport) ==
    LET matches(qm) ==
            /\ id > 0 => qm.ID = id
            /\ todomain /= "" => qm.RecipientDomain = todomain
            /\ recipient /= "" => rcptPath(qm) = recipient
            /\ qm.NextAttempt > q.now
        kicked(qm) ==
            [qm EXCEPT !.NextAttempt = q.now,
                       !.Transport = IF transport = nil THEN @ ELSE transport[1]]
    IN [msgs |-> {IF matches(qm) THEN kicked(qm) ELSE qm : qm \in q.msgs},
        count |-> Cardinality({qm \in q.msgs : matches(qm)})]

\* queue.Kick: the matching messages get next_attempt = now, and the
\* transport if one is given; the number of matching messages is returned.
queueKick(q, id, todomain, recipient, transport) ==
    LET matches(qm) ==
            /\ id > 0 => qm.ID = id
            /\ todomain /= "" => qm.RecipientDomain = todomain
            /\ recipient /= "" => rcptPath(qm) = recipient
        kicked(qm) ==
            [qm EXCEPT !.NextAttempt = q.now,
                       !.Transport = IF transport = nil THEN @ ELSE transport[1]]
    IN [msgs |-> {IF matches(qm) THEN kicked(qm) ELSE qm : qm \in q.msgs},
        count |-> Cardinality({qm \in q.msgs : matches(qm)})]

\* The mutant of xtransport: the transport line is always passed on.
xtransportAlways(transport) == Ptr(transport)

\* The transport the queuekick handler passes to queue.Kick.
xtransport(transport) == IF transport /= "" THEN Ptr(transport) ELSE nil

\* The queuekick handler: the new messages of the queue, the lines written
\* and whether the handler failed.
ctlQueueKick(q, idstr, todomain, recipient, transport) ==
    LET id == ParseInt(idstr)
        r == queueKick(q, id.n, todomain, recipient, xtransport(transport))
    IN IF ~id.ok
       THEN [msgs |-> q.msgs, lines |-> <<"0", ErrorLine("parsing id")>>, fails |-> TRUE]
       ELSE [msgs |-> r.msgs, lines |-> <<Itoa(r.count), "ok">>, fails |-> FALSE]

\* The attempts that are running, in all and to one domain.
RECURSIVE SumLeased(_)
SumLeased(ms) ==
    IF ms = {} THEN 0
    ELSE LET qm == CHOOSE x \in ms : TRUE IN qm.Leased + SumLeased(ms \ {qm})
InFlight(q) == SumLeased(q.msgs)
InFlightTo(q, domain) == SumLeased({qm \in q.msgs : qm.RecipientDomain = domain})

\* The mutant of startable: a message that is being attempted is not
\* excluded.
startableLeased(q, qm) ==
    /\ qm.NextAttempt <= q.now
    /\ InFlight(q) < MaxConcurrentDeliveries
    /\ InFlightTo(q, qm.RecipientDomain) < MaxDeliveriesPerDomain

\* The mutant of startable: the scheduler waits for the running attempt.
startableAlone(q, qm) ==
    /\ qm.NextAttempt <= q.now
    /\ qm.Leased = 0
    /\ InFlight(q) = 0

\* The scheduler may start an attempt for a message that is due and not
\* being attempted, while the caps leave room.
startable(q, qm) ==
    /\ qm.NextAttempt <= q.now
    /\ qm.Leased = 0
    /\ InFlight(q) < MaxConcurrentDeliveries
    /\ InFlightTo(q, qm.RecipientDomain) < MaxDeliveriesPerDomain

\* The scheduler selects the earliest of the messages it may start.
selected(q, qm) ==
    /\ startable(q, qm)
    /\ \A other \in q.msgs : startable(q, other) => qm.NextAttempt <= other.NextAttempt

queueStart(q, id) ==
    [q EXCEPT !.msgs = {IF qm.ID = id THEN [qm EXCEPT !.Leased = @ + 1] ELSE qm : qm \in @},
              !.last = [op |-> "start", id |-> id]]

\* The message leaves the queue; after a failure a DSN is queued to its
\* sender, with an empty sender of its own, unless it has no sender.
queueDrop(q, qm, how) ==
    LET dsn == how = "failed" /\ senderPath(qm) /= ""
        left == [q EXCEPT !.msgs = {x \in @ : x.ID /= qm.ID},
                          !.gone = @ \cup {[ID |-> qm.ID, sender |-> senderPath(qm), how |-> how,
                                            attempts |-> qm.Attempts,
                                            dsn |-> IF dsn THEN q.nextID ELSE 0]}]
    IN IF dsn
       THEN queueAdd(left, "", "", qm.SenderLocalpart, qm.SenderDomain, qm.ID)
       ELSE left

\* The mutant of queueFinish: a temporary failure leaves the row as it was.
queueFinishStuck(q, id, outcome) ==
    LET qm == msgOf(q, id)
        failed == [qm EXCEPT !.Leased = @ - 1]
        done == IF outcome = "250" THEN queueDrop(q, qm, "delivered")
                ELSE IF outcome = "550" THEN queueDrop(q, qm, "failed")
                ELSE [q EXCEPT !.msgs = (@ \ {qm}) \cup {failed}]
    IN [done EXCEPT !.last = [op |-> "attempt", id |-> id, outcome |-> outcome]]

\* The end of an attempt: on success the message is removed; on a
\* temporary failure it waits for backoff(attempts) with attempts
\* incremented; on a permanent failure, or when the attempts have reached
\* the maximum, it is dropped with a DSN.
queueFinish(q, id, outcome) ==
    LET qm == msgOf(q, id)
        failed == [qm EXCEPT !.NextAttempt = q.now + backoff(qm.Attempts),
                             !.Attempts = @ + 1,
                             !.Attempted = Append(@, q.now),
                             !.LastError = outcome,
                             !.Leased = @ - 1]
        done == IF outcome = "250" THEN queueDrop(q, qm, "delivered")
                ELSE IF outcome = "550" THEN queueDrop(q, qm, "failed")
                ELSE IF failed.Attempts >= q.max THEN queueDrop(q, failed, "failed")
                ELSE [q EXCEPT !.msgs = (@ \ {qm}) \cup {failed}]
    IN [done EXCEPT !.last = [op |-> "attempt", id |-> id, outcome |-> outcome]]

\* The times of the attempts to come.
Later(q) == {qm.NextAttempt : qm \in {x \in q.msgs : x.NextAttempt > q.now}}
Earliest(S) == CHOOSE t \in S : \A u \in S : t <= u

----------------------------------------------------------------------------
(* The retrain command: the junk filter of an account is rebuilt from its
   messages.  The junk filter is two files; the data of junkfilter.db is
   the sequence of the messages it was trained with. *)

JunkFilterDB(name) == <<"accounts", name, "junkfilter.db">>
JunkFilterBloom(name) == <<"accounts", name, "junkfilter.bloom">>
Exists(files, path) == \E f \in files : f.path = path
DataOf(files, path) == (CHOOSE f \in files : f.path = path).data

\* os.Remove: the file is gone if the removal succeeds; otherwise, the
\* file not existing or the removal failing, the files are as before.
osRemove(files, path, outcome) ==
    IF Exists(files, path) /\ outcome = "ok"
    THEN [files |-> {f \in files : f.path /= path}, err |-> FALSE]
    ELSE [files |-> files, err |-> TRUE]

\* Account.OpenJunkFilter: the filter of the files that exist, or new files
\* with an empty filter.
OpenJunkFilter(files, name) ==
    IF Exists(files, JunkFilterDB(name))
    THEN [files |-> files \cup (IF Exists(files, JunkFilterBloom(name)) THEN {}
                                ELSE {File(JunkFilterBloom(name), <<>>)}),
          jf |-> DataOf(files, JunkFilterDB(name))]
    ELSE [files |-> {f \in files : f.path /= JunkFilterBloom(name)}
                     \cup {File(JunkFilterDB(name), <<>>), File(JunkFilterBloom(name), <<>>)},
          jf |-> <<>>]

\* Account.TrainMessage: a message flagged junk or notjunk is used.
TrainMessage(jf, id, flag) == IF flag \in {"junk", "notjunk"} THEN Append(jf, id) ELSE jf

\* Filter.Close: the filter is saved.
jfClose(files, name, jf) ==
    {f \in files : f.path /= JunkFilterDB(name)} \cup {File(JunkFilterDB(name), jf)}

\* q.ForEach with TrainMessage: the messages in the order of their ids,
\* until TrainMessage fails; the filter and the calls made.
RECURSIVE trainAll(_, _, _, _, _)
trainAll(jf, ids, flags, failAt, cs) ==
    IF ids = {} THEN [jf |-> jf, calls |-> cs, err |-> FALSE]
    ELSE LET id == CHOOSE i \in ids : \A j \in ids : i <= j
             cs1 == Append(cs, ZoneCall("TrainMessage", id))
         IN IF id = failAt THEN [jf |-> jf, calls |-> cs1, err |-> TRUE]
            ELSE trainAll(TrainMessage(jf, id, flags[id]), ids \ {id}, flags, failAt, cs1)

\* The retrain handler, for the account, the files and the outcomes of the
\* calls it makes: the files afterwards, the lines written and the calls
\* made, in their order.
ctlRetrain(a, name, files, in) ==
    LET failed(fs, msg, cs) ==
            [disk |-> fs, fails |-> TRUE, lines |-> <<ErrorLine(msg)>>, calls |-> cs]
        rm1 == osRemove(files, JunkFilterDB(name), in.rmdb)
        rm2 == osRemove(rm1.files, JunkFilterBloom(name), in.rmbloom)
        opened == OpenJunkFilter(rm2.files, name)
        cs3 == <<Call("WLock"), Call("os.Remove"), Call("os.Remove"), Call("OpenJunkFilter")>>
        trained == trainAll(opened.jf, {msg.ID : msg \in a.messages}, in.flags, in.failAt, cs3)
        cs4 == Append(trained.calls, Call("Close"))
    IN IF in.open = "error" THEN failed(files, "open account", <<>>)
       ELSE IF ~in.conf
       THEN failed(files, "looking for junk filter", <<Call("WLock"), Call("WUnlock")>>)
       ELSE IF in.openjf = "error"
       THEN failed(rm2.files, "open new junk filter",
                   <<Call("WLock"), Call("os.Remove"), Call("os.Remove"),
                     Call("OpenJunkFilter"), Call("WUnlock")>>)
       ELSE IF trained.err
       THEN failed(IF in.close = "ok" THEN jfClose(opened.files, name, trained.jf)
                   ELSE opened.files,
                   "training messages", Append(cs4, Call("WUnlock")))
       ELSE IF in.close = "error"
       THEN failed(opened.files, "closing junk filter", Append(cs4, Call("WUnlock")))
       ELSE [disk |-> jfClose(opened.files, name, trained.jf), fails |-> FALSE,
             lines |-> <<"ok">>, calls |-> Append(cs4, Call("WUnlock"))]

----------------------------------------------------------------------------
(* The state machine. *)

\* Nothing has run yet.
Fresh ==
    /\ pc = "start"
    /\ result = ZeroAnalysis
    /\ calls = <<>>
    /\ m = ZeroM
    /\ jitter = 0
    /\ hint = NoToken
    /\ checked = NotChecked
    /\ disk = {}
    /\ wire = NoStream
    /\ ctl = NoConnections
    /\ queue = NoQueue
    /\ sts = NoSTS
    /\ locks = NoLocks

\* Before analyze is called, for a delivery and answers drawn from the sets.
InitFrom(LI, DM, VAL, IP, RPT, REP, SP, JF, BL) ==
    /\ \E li \in LI, dm \in DM, val \in VAL, ip \in IP, rpt \in RPT,
          rep \in REP, sp \in SP, jf \in JF, bl \in BL, now \in Nows :
          /\ d = Delivery(li, dm, val, ip, rpt, sp, bl, now)
          /\ env = Environment(li, rpt, rep, sp, jf, bl, now)
    /\ acc = AccountOf({"Inbox"})
    /\ Fresh

\* analyze runs to its return.
Analyze ==
    /\ pc = "start"
    /\ \E rand \in Rands :
          LET out == analyze(d, env, rand) IN
          /\ result' = out.a
          /\ calls' = out.calls
          /\ m' = out.m
          /\ jitter' = out.jitter
    /\ pc' = "done"
    /\ UNCHANGED <<d, env, hint, acc, checked>>
    /\ UNCHANGED ctlVars
    /\ UNCHANGED otherVars

Next == Analyze

\* The list allowance and the DMARC policy over all their inputs.
InitListAllow ==
    InitFrom(ListAllowAll, DMARCAll, {"pass", "fail"}, {"pass", "fail"}, ReportsNone,
             ReputationVerdicts, SubjectpassSome, JunkSpam, BlocklistsSome)
SpecListAllow == InitListAllow /\ [][Next]_vars

\* Reputation, SPF and iprev over all their inputs.
InitReputation ==
    InitFrom(ListAllowSome, DMARCSome, ValidationsAll, IPrevAll, ReportsSome,
             ReputationAll, SubjectpassSome, JunkSome, BlocklistsSome)
SpecReputation == InitReputation /\ [][Next]_vars

\* Subjectpass and content classification over all their inputs.
InitContent ==
    InitFrom(ListAllowNone, DMARCPassFail, {"pass"}, IPrevAll, ReportsNone,
             ReputationWeak, SubjectpassAll, JunkAll, BlocklistsSome)
SpecContent == InitContent /\ [][Next]_vars

\* The DNS blocklists over all their inputs.
InitDNSBL ==
    InitFrom(ListAllowNone, DMARCPassFail, {"pass"}, {"pass", "fail"}, ReportsNone,
             ReputationWeak, SubjectpassOnOff, JunkSome, BlocklistsAll)
SpecDNSBL == InitDNSBL /\ [][Next]_vars

\* The errors of the collaborators over all their combinations: the mailbox
\* lookup, reputation, the subjectpass key, the junk filter.
ReputationErrors == ReputationVerdicts \cup {Reputation(TRUE, "nil", FALSE, methodNone)}
JunkErrors ==
    {Junk("none", FALSE, 950, 0), Junk("error", FALSE, 950, 0), Junk("ok", TRUE, 950, 0),
     Junk("ok", FALSE, 950, 100), Junk("ok", FALSE, 950, 990)}
InitErrors ==
    /\ \E li \in ListAllowSome, dm \in DMARCAll, ip \in {"pass", "fail"},
          rpt \in ReportsNone, rep \in ReputationErrors, sp \in SubjectpassAll,
          jf \in JunkErrors, bl \in BlocklistsSome, now \in Nows, mfe \in BOOLEAN :
          /\ d = Delivery(li, dm, "pass", ip, rpt, sp, bl, now)
          /\ env = [Environment(li, rpt, rep, sp, jf, bl, now)
                       EXCEPT !.mailboxFindErr = mfe]
    /\ acc = AccountOf({"Inbox"})
    /\ Fresh
SpecErrors == InitErrors /\ [][Next]_vars

\* DMARC reports over all their inputs, to a sender whose message the later
\* steps would refuse or accept.
ReputationReports ==
    ReputationErrors \cup {Reputation(FALSE, "true", FALSE, methodMsgfromDomain),
                           Reputation(FALSE, "false", FALSE, methodIP1)}
InitDMARCReport ==
    /\ \E dr \in BOOLEAN, dm \in DMARCAll, val \in {"pass", "fail"},
          ip \in {"pass", "fail"}, rep \in ReputationReports,
          sp \in SubjectpassOnOff, jf \in {Junk("ok", FALSE, 950, 100), Junk("ok", FALSE, 950, 990)},
          bl \in BlocklistsSome, now \in Nows :
          \E report \in DMARCReportAnswers(now) :
          LET li == [rs |-> NoRuleset, mfv |-> TRUE, mfd |-> "other.example", dkim |-> <<>>]
              rpt == [dst |-> [PlainDestination EXCEPT !.DMARCReports = dr],
                      future |-> FALSE]
          IN /\ d = Delivery(li, dm, val, ip, rpt, sp, bl, now)
             /\ env = [Environment(li, rpt, rep, sp, jf, bl, now)
                          EXCEPT !.dmarcrpt = report]
    /\ acc = AccountOf({"Inbox"})
    /\ Fresh
SpecDMARCReport == InitDMARCReport /\ [][Next]_vars

\* TLS reports over all their inputs, with or without a DMARC report next to
\* them, for a message the later steps would refuse.
InitTLSReport ==
    /\ \E dst \in Destinations, dkim \in SeqsUpTo(ReportDKIMResults, MaxDKIM),
          dm \in DMARCPassFail, rep \in ReputationErrors, now \in Nows :
          \E report \in TLSReportAnswers(now) :
          LET li == [rs |-> NoRuleset, mfv |-> TRUE, mfd |-> "other.example", dkim |-> dkim]
              rpt == [dst |-> dst, future |-> FALSE]
              sp == [period |-> 3600, keyErr |-> FALSE, token |-> "none"]
              jf == Junk("ok", FALSE, 950, 990)
              bl == [zones |-> <<1>>, dnsbl |-> <<[healthy |-> TRUE, status |-> "fail"]>>]
          IN /\ d = Delivery(li, dm, "fail", "fail", rpt, sp, bl, now)
             /\ env = [Environment(li, rpt, rep, sp, jf, bl, now)
                          EXCEPT !.tlsrpt = report]
    /\ acc = AccountOf({"Inbox"})
    /\ Fresh
SpecTLSReport == InitTLSReport /\ [][Next]_vars

\* The server after analyze: an accepted message is delivered to its mailbox,
\* MailboxDestinedID cleared; of a rejected message a copy is delivered to the
\* Rejects mailbox, if the account has one configured, with the
\* MailboxDestinedID analyze recorded.
DeliverResult ==
    /\ pc = "done"
    /\ acc' = IF result.accept
              THEN deliverMailbox(acc, destinationMailbox(d, MessageRuleset(env)), 0)
              ELSE IF env.conf.RejectsMailbox /= ""
              THEN deliverMailbox(acc, env.conf.RejectsMailbox, m.MailboxDestinedID)
              ELSE acc
    /\ pc' = "delivered"
    /\ UNCHANGED <<d, env, result, calls, m, jitter, hint, checked>>
    /\ UNCHANGED ctlVars
    /\ UNCHANGED otherVars

NextRejects == Analyze \/ DeliverResult

\* The mailbox of the message over all its inputs: a ruleset or none, a
\* destination with or without mailbox, the mailboxes that exist, a Rejects
\* mailbox configured or not; for verdicts of every step.
InitRejects ==
    /\ \E rs \in {NoRuleset, PlainRuleset}, mailbox \in {"", "Work"},
          mailboxes \in SUBSET MailboxNames, mfe \in BOOLEAN,
          rejects \in {"", "Rejects"}, dm \in DMARCAll, rep \in ReputationErrors,
          jf \in {Junk("ok", FALSE, 950, 100), Junk("ok", FALSE, 950, 990)},
          now \in Nows :
          LET li == [rs |-> rs, mfv |-> TRUE, mfd |-> "other.example", dkim |-> <<>>]
              rpt == [dst |-> [PlainDestination EXCEPT !.Mailbox = mailbox],
                      future |-> FALSE]
              sp == [period |-> 0, keyErr |-> FALSE, token |-> "none"]
              bl == [zones |-> <<>>, dnsbl |-> <<>>]
          IN /\ d = Delivery(li, dm, "pass", "pass", rpt, sp, bl, now)
             /\ env = [Environment(li, rpt, rep, sp, jf, bl, now)
                          EXCEPT !.mailboxes = mailboxes, !.mailboxFindErr = mfe,
                                 !.conf.RejectsMailbox = rejects]
             /\ acc = AccountOf(mailboxes)
    /\ Fresh
SpecRejects == InitRejects /\ [][NextRejects]_vars

\* Reputation with a recipient history, for messages the junk filter
\* refuses or lets through.
InitSent ==
    /\ \E recipients \in RecipientHistories, history \in ReputationAll,
          dm \in DMARCPassFail, ip \in {"pass", "fail"},
          sp \in SubjectpassOnOff, bl \in BlocklistsSome, now \in Nows,
          jf \in {Junk("none", FALSE, 950, 0), Junk("ok", FALSE, 950, 100),
                  Junk("ok", FALSE, 900, 940), Junk("ok", FALSE, 900, 990)} :
          LET li == [rs |-> NoRuleset, mfv |-> TRUE, mfd |-> "other.example", dkim |-> <<>>]
              rpt == [dst |-> PlainDestination, future |-> FALSE]
              dd == Delivery(li, dm, "pass", ip, rpt, sp, bl, now)
              rep == reputation(recipients, dd.msgFrom, history)
          IN /\ d = dd
             /\ env = [recipients |-> recipients, history |-> history]
                       @@ Environment(li, rpt, rep, sp, jf, bl, now)
    /\ acc = AccountOf({"Inbox"})
    /\ Fresh
SpecSent == InitSent /\ [][Next]_vars

\* The store's operations on the account, until verifydata looks at it.
StoreDeliver ==
    /\ acc.store /\ ~checked.ran
    /\ acc.lastMessageID < MaxMessages
    /\ \E mb \in acc.mailboxes : acc' = deliver(acc, mb, 0)
    /\ UNCHANGED <<d, env, pc, result, calls, m, jitter, hint, checked>>
    /\ UNCHANGED ctlVars
    /\ UNCHANGED otherVars

MailboxCreate ==
    /\ acc.store /\ ~checked.ran
    /\ acc.NextUIDValidity < MaxUIDValidity
    /\ \E name \in MailboxNames :
          /\ mailboxesNamed(acc, name) = {}
          /\ acc' = mailboxCreate(acc, name)
    /\ UNCHANGED <<d, env, pc, result, calls, m, jitter, hint, checked>>
    /\ UNCHANGED ctlVars
    /\ UNCHANGED otherVars

MailboxRename ==
    /\ acc.store /\ ~checked.ran
    /\ acc.NextUIDValidity < MaxUIDValidity
    /\ \E mb \in acc.mailboxes, name \in MailboxNames :
          /\ mailboxesNamed(acc, name) = {}
          /\ acc' = mailboxRename(acc, mb, name)
    /\ UNCHANGED <<d, env, pc, result, calls, m, jitter, hint, checked>>
    /\ UNCHANGED ctlVars
    /\ UNCHANGED otherVars

MailboxDestroy ==
    /\ acc.store /\ ~checked.ran
    /\ acc.NextUIDValidity < MaxUIDValidity
    /\ \E mb \in acc.mailboxes : acc' = mailboxDestroy(acc, mb)
    /\ UNCHANGED <<d, env, pc, result, calls, m, jitter, hint, checked>>
    /\ UNCHANGED ctlVars
    /\ UNCHANGED otherVars

\* verifydata on the account database.
Verifydata ==
    /\ ~checked.ran
    /\ checked' = Checked(checkAccount(acc))
    /\ UNCHANGED <<d, env, pc, result, calls, m, jitter, hint, acc>>
    /\ UNCHANGED ctlVars
    /\ UNCHANGED otherVars

NextStore ==
    \/ StoreDeliver
    \/ MailboxCreate
    \/ MailboxRename
    \/ MailboxDestroy
    \/ Verifydata

\* Databases as they may be found on disk: at most one mailbox and one
\* message, with any uid validity, uid_next, uid and next uid validity.
BackupAccounts ==
    {Account(mbs, msgs, hasNext, next, FALSE) :
        mbs \in {{}} \cup {{Mailbox(1, "Inbox", v, n)} : v \in 1..MaxBackupUID, n \in 1..MaxBackupUID},
        msgs \in {{}} \cup {{Message(1, id, 0, uid, file)} :
                                id \in 1..2, uid \in 1..MaxBackupUID, file \in BOOLEAN},
        hasNext \in BOOLEAN, next \in 1..(MaxBackupUID + 1)}

\* A new account with an Inbox, or a database found on disk.
InitStore ==
    /\ \E now \in Nows :
          LET li == [rs |-> NoRuleset, mfv |-> TRUE, mfd |-> "other.example", dkim |-> <<>>]
              rpt == [dst |-> PlainDestination, future |-> FALSE]
              sp == [period |-> 0, keyErr |-> FALSE, token |-> "none"]
              bl == [zones |-> <<>>, dnsbl |-> <<>>]
          IN /\ d = Delivery(li, [use |-> FALSE, result |-> [Reject |-> FALSE, Status |-> "none"]],
                             "pass", "pass", rpt, sp, bl, now)
             /\ env = Environment(li, rpt, Reputation(FALSE, "nil", FALSE, methodNone),
                                  sp, Junk("none", FALSE, 950, 0), bl, now)
    /\ acc \in {AccountOf({"Inbox"})} \cup BackupAccounts
    /\ Fresh
SpecStore == InitStore /\ [][NextStore]_vars

\* How long after the rejection the sender tries again, for a period: at
\* once, at the end of the period, a second after it.
Delays(period) == {0, period, period + 1}

\* The sender of a message refused with 550 and the subjectpass explanation
\* takes the token from the error line and sends the message again, the token
\* in its Subject; everything else is as it was.
Redeliver ==
    /\ pc = "done"
    /\ hint = NoToken
    /\ result.code = C550MailboxUnavail
    /\ result.errmsg.text = Explanation
    /\ \E dt \in Delays(env.conf.SubjectPassPeriod) :
          env' = [env EXCEPT !.now = @ + dt]
    /\ hint' = result.errmsg.token
    /\ d' = [d EXCEPT !.dataFile.tokens = result.errmsg.token]
    /\ pc' = "start"
    /\ result' = ZeroAnalysis
    /\ calls' = <<>>
    /\ m' = ZeroM
    /\ jitter' = 0
    /\ UNCHANGED <<acc, checked>>
    /\ UNCHANGED ctlVars
    /\ UNCHANGED otherVars

NextRoundTrip == Analyze \/ Redeliver

\* A delivery that may be refused with a hint, and the second delivery.
InitRoundTrip ==
    InitFrom(ListAllowNone, DMARCPassFail, {"pass"}, {"pass", "fail"}, ReportsNone,
             ReputationWeak, SubjectpassOnOff, JunkSome, BlocklistsAll)
SpecRoundTrip == InitRoundTrip /\ [][NextRoundTrip]_vars

----------------------------------------------------------------------------
(* The control socket, the data directory and the queue. *)

\* analyze is not running.
AtRest ==
    /\ \E now \in Nows :
          LET li == [rs |-> NoRuleset, mfv |-> TRUE, mfd |-> "other.example", dkim |-> <<>>]
              rpt == [dst |-> PlainDestination, future |-> FALSE]
              sp == [period |-> 0, keyErr |-> FALSE, token |-> "none"]
              bl == [zones |-> <<>>, dnsbl |-> <<>>]
          IN /\ d = Delivery(li, [use |-> FALSE, result |-> [Reject |-> FALSE, Status |-> "none"]],
                             "pass", "pass", rpt, sp, bl, now)
             /\ env = Environment(li, rpt, Reputation(FALSE, "nil", FALSE, methodNone),
                                  sp, Junk("none", FALSE, 950, 0), bl, now)
    /\ pc = "start"
    /\ result = ZeroAnalysis
    /\ calls = <<>>
    /\ m = ZeroM
    /\ jitter = 0
    /\ hint = NoToken
    /\ checked = NotChecked

\* The server handles a "deliver" command: the client names an address, of
\* the account or of nobody, and streams a message, cut into chunks.
CtlDeliver ==
    \E c \in DOMAIN ctl :
       /\ CanServe(c)
       /\ \E msg \in ByteSeqs(MaxMsgLen), fault \in DeliverFaults :
             \E reads \in Chunkings(msg) :
                LET to == IF fault = "lookup destination address"
                          THEN "nobody@mox.example" ELSE AccountAddress
                    out == ctlDeliver(acc, disk, to, reads, fault)
                IN /\ acc' = out.acc
                   /\ disk' = out.disk
                   /\ ctl' = [ctl EXCEPT ![c] = afterCommand(@, Request("deliver", fault),
                                                             out.lines, out.fails)]
       /\ UNCHANGED <<analyzeVars, checked, wire, queue>>
       /\ UNCHANGED otherVars

NextCtlDeliver == CtlDeliver

\* The message IDs the account has handed out before: none, or up to the
\* end of a directory of message files.
LastMessageIDs == {0, ShardSize - 2, ShardSize - 1}

\* An account with an Inbox, and a client that sends one command.
InitCtlDeliver ==
    /\ AtRest
    /\ sts = NoSTS
    /\ locks = NoLocks
    /\ \E last \in LastMessageIDs :
          acc = [AccountOf({"Inbox"}) EXCEPT !.lastMessageID = last]
    /\ disk = {}
    /\ wire = NoStream
    /\ ctl = <<NewConnection(1)>>
    /\ queue = NoQueue
SpecCtlDeliver == InitCtlDeliver /\ [][NextCtlDeliver]_vars

\* verifydata runs on the data directory, with or without -fix.
VerifydataDir ==
    /\ ~checked.ran
    /\ queue.mode = "db"
    /\ \E fix \in BOOLEAN :
          LET out == cmdVerifydata(disk, queue.ids, acc, fix) IN
          /\ disk' = out.disk
          /\ checked' = out.checked
    /\ UNCHANGED <<analyzeVars, acc, wire, ctl, queue>>
    /\ UNCHANGED otherVars

NextVerifydata == VerifydataDir

\* Paths of files that may be found below the queue directory and below a
\* message directory, besides index.db: message files, a file directly in
\* the directory, files in a directory of message files, files deeper down.
FoundInQueue ==
    {<<"0", "1">>, <<"0", "2">>, <<"x">>, <<"0", "x">>, <<"0", "y", "1">>, <<"0", "1", "z">>}
FoundInMsg ==
    {<<"0", "1">>, <<"0", "2">>, <<"x">>, <<"0", "x">>, <<"0", "y", "1">>}

\* A data directory as restored from a backup: a queue with or without a
\* message, an account with or without a message, and files.
InitVerifydata ==
    /\ AtRest
    /\ sts = NoSTS
    /\ locks = NoLocks
    /\ \E qfiles \in SUBSET FoundInQueue, mfiles \in SUBSET FoundInMsg,
          qids \in SUBSET {1}, delivered \in BOOLEAN :
          /\ disk = {File(QueueDir \o <<"index.db">>, <<>>)}
                    \cup {File(QueueDir \o p, <<>>) : p \in qfiles}
                    \cup {File(MsgDir(AccountName) \o p, <<>>) : p \in mfiles}
          /\ queue = QueueDB(qids)
          /\ acc = IF delivered
                   THEN Account({Mailbox(1, "Inbox", 1, 2)},
                                {Message(1, 1, 0, 1, MessagePath(1) \in mfiles)},
                                TRUE, 2, FALSE)
                   ELSE Account({Mailbox(1, "Inbox", 1, 1)}, {}, TRUE, 2, FALSE)
    /\ wire = NoStream
    /\ ctl = NoConnections
SpecVerifydata == InitVerifydata /\ [][NextVerifydata]_vars

\* The writer is handed the next bytes: ctlwriter.Write, to its read of the
\* response.
StreamWrite ==
    /\ wire.mode = "stream" /\ wire.wpc = "idle"
    /\ \E k \in 1..(Len(wire.data) - wire.sent) :
          wire' = ctlwriterWrite(wire, SubSeq(wire.data, wire.sent + 1, wire.sent + k))
    /\ UNCHANGED <<analyzeVars, acc, checked, disk, ctl, queue>>
    /\ UNCHANGED otherVars

\* The response to the bytes arrives: ctlwriter.Write returns.
StreamResponse ==
    /\ wire.mode = "stream" /\ wire.wpc = "response"
    /\ wire.s2c /= <<>>
    /\ wire' = ctlwriterResponse(wire)
    /\ UNCHANGED <<analyzeVars, acc, checked, disk, ctl, queue>>
    /\ UNCHANGED otherVars

\* All bytes are written: xclose.
StreamClose ==
    /\ wire.mode = "stream" /\ wire.wpc = "idle"
    /\ wire.sent = Len(wire.data)
    /\ wire' = ctlwriterClose(wire)
    /\ UNCHANGED <<analyzeVars, acc, checked, disk, ctl, queue>>
    /\ UNCHANGED otherVars

\* The peer reads with a buffer of some size; it blocks until a count line
\* and, if the line announces data, a byte of data arrived.
StreamRead ==
    /\ wire.mode = "stream" /\ wire.rpc = "idle"
    /\ \/ wire.err /= "nil"
       \/ wire.npending > 0 /\ wire.c2s /= <<>>
       \/ /\ wire.npending = 0 /\ HasLine(wire.c2s)
          /\ \/ ParseInt(ReadString(wire.c2s).line).n <= 0
             \/ ReadString(wire.c2s).rest /= <<>>
    /\ \E len \in 1..MaxBuf, n \in 1..MaxBuf :
          /\ n <= len
          /\ n <= Len(Arrived(wire)) \/ n = 1
          /\ wire' = ctlreaderRead(wire, len, n)
    /\ UNCHANGED <<analyzeVars, acc, checked, disk, ctl, queue>>
    /\ UNCHANGED otherVars

NextStream == StreamWrite \/ StreamResponse \/ StreamClose \/ StreamRead

\* A stream of any bytes, nothing written yet.
InitStream ==
    /\ AtRest
    /\ sts = NoSTS
    /\ locks = NoLocks
    /\ acc = AccountOf({"Inbox"})
    /\ disk = {}
    /\ \E data \in ByteSeqs(MaxMsgLen) : wire = Stream(data)
    /\ ctl = NoConnections
    /\ queue = NoQueue
SpecStream == InitStream /\ [][NextStream]_vars

\* The server reads a command from a connection and runs its handler.
ServeCommand ==
    \E c \in DOMAIN ctl :
       /\ CanServe(c)
       /\ \E cmd \in Commands :
             \E fault \in Faults(cmd) :
                LET out == servectlcmd(cmd, fault)
                    conns == [ctl EXCEPT ![c] = afterCommand(@, Request(cmd, fault),
                                                            out.lines, out.fails)]
                IN ctl' = IF out.exits THEN exited(conns) ELSE conns
       /\ UNCHANGED <<analyzeVars, acc, checked, disk, wire, queue>>
       /\ UNCHANGED otherVars

NextCtl == ServeCommand

\* Two clients are connected; the first sends one command, or two without
\* waiting for the answer to the first, the second sends one.
InitCtl ==
    /\ AtRest
    /\ sts = NoSTS
    /\ locks = NoLocks
    /\ acc = AccountOf({"Inbox"})
    /\ disk = {}
    /\ wire = NoStream
    /\ \E t1 \in 1..2 : ctl = <<NewConnection(t1), NewConnection(1)>>
    /\ queue = NoQueue
SpecCtl == InitCtl /\ [][NextCtl]_vars

----------------------------------------------------------------------------
(* The delivery queue: submission, the scheduler's loop, the attempts and
   the queuekick command. *)

Recipients == {<<"a", "remote.example">>, <<"b", "other.example">>}
Outcomes == {"250", "451", "550"}
KickIDs == {FormatInt(n) : n \in 0..2} \cup {<<"a">>}

QueueAdd ==
    /\ queue.mode = "queue"
    /\ queue.room > 0
    /\ \E rcpt \in Recipients :
          queue' = [queueAdd(queue, "mjl", "mox.example", rcpt[1], rcpt[2], 0)
                       EXCEPT !.room = @ - 1, !.last = [op |-> "add"]]
    /\ UNCHANGED <<analyzeVars, acc, checked, disk, wire, ctl>>
    /\ UNCHANGED otherVars

QueueStart ==
    /\ queue.mode = "queue"
    /\ \E qm \in queue.msgs :
          /\ selected(queue, qm)
          /\ queue' = queueStart(queue, qm.ID)
    /\ UNCHANGED <<analyzeVars, acc, checked, disk, wire, ctl>>
    /\ UNCHANGED otherVars

QueueFinish ==
    /\ queue.mode = "queue"
    /\ \E qm \in queue.msgs :
          /\ qm.Leased > 0
          /\ \E outcome \in Outcomes : queue' = queueFinish(queue, qm.ID, outcome)
    /\ UNCHANGED <<analyzeVars, acc, checked, disk, wire, ctl>>
    /\ UNCHANGED otherVars

\* Time passes until the next attempt of some message is due.
QueueTick ==
    /\ queue.mode = "queue"
    /\ Later(queue) /= {}
    /\ queue' = [queue EXCEPT !.now = Earliest(Later(queue))]
    /\ UNCHANGED <<analyzeVars, acc, checked, disk, wire, ctl>>
    /\ UNCHANGED otherVars

\* The queuekick command, for parameter lines from the given sets; `again'
\* tells that the command before it was the same, with no submission and no
\* attempt between the two.
KickWith(idstrs, todomains, recipients, transports) ==
    /\ queue.mode = "queue"
    /\ \E idstr \in idstrs, todomain \in todomains,
          recipient \in recipients, transport \in transports :
          LET r == ctlQueueKick(queue, idstr, todomain, recipient, transport)
              kick == [idstr |-> idstr, todomain |-> todomain,
                       recipient |-> recipient, transport |-> transport]
          IN queue' = [queue EXCEPT
                         !.msgs = r.msgs,
                         !.last = [op |-> "kick", kick |-> kick, lines |-> r.lines,
                                   again |-> queue.last.op = "kick" /\ queue.last.kick = kick]]
    /\ UNCHANGED <<analyzeVars, acc, checked, disk, wire, ctl>>
    /\ UNCHANGED otherVars

QueueKick == KickWith(KickIDs, {"", "remote.example"}, {"", "b@other.example"}, {"", "relay"})
\* The first message is kicked.
QueueKickFirst == KickWith({FormatInt(1)}, {""}, {""}, {""})

NextQueue == QueueAdd \/ QueueStart \/ QueueFinish \/ QueueTick \/ QueueKickFirst

\* As many messages are submitted as there are recipients.
InitQueue ==
    /\ AtRest
    /\ sts = NoSTS
    /\ locks = NoLocks
    /\ acc = AccountOf({"Inbox"})
    /\ disk = {}
    /\ wire = NoStream
    /\ ctl = NoConnections
    /\ queue = NewQueue(Cardinality(Recipients), MaxAttempts)
SpecQueue == InitQueue /\ [][NextQueue]_vars

\* The scheduler keeps running, attempts end and time passes.
NextDelivery == QueueAdd \/ QueueStart \/ QueueFinish \/ QueueTick
FairQueue ==
    /\ InitQueue /\ [][NextDelivery]_vars
    /\ WF_vars(QueueStart) /\ WF_vars(QueueFinish) /\ WF_vars(QueueTick)

\* One message, given up after many attempts.
NextBackoff == QueueAdd \/ QueueStart \/ QueueFinish \/ QueueTick
InitBackoff ==
    /\ AtRest
    /\ sts = NoSTS
    /\ locks = NoLocks
    /\ acc = AccountOf({"Inbox"})
    /\ disk = {}
    /\ wire = NoStream
    /\ ctl = NoConnections
    /\ queue = NewQueue(1, MaxBackoffAttempts)
SpecBackoff == InitBackoff /\ [][NextBackoff]_vars

\* A queue of messages that wait for their first attempt or for a retry;
\* the administrator kicks while time passes.
Waiting(id, rcpt, attempts, transport) ==
    [QueueMessage(id, "mjl", "mox.example", rcpt[1], rcpt[2], 0, 0) EXCEPT
        !.Attempts = attempts,
        !.NextAttempt = IF attempts = 0 THEN 0 ELSE backoff(0),
        !.Attempted = IF attempts = 0 THEN <<>> ELSE <<0>>,
        !.LastError = IF attempts = 0 THEN "" ELSE "451",
        !.Transport = transport]
NextKick == QueueKick \/ QueueTick
InitKick ==
    /\ AtRest
    /\ sts = NoSTS
    /\ locks = NoLocks
    /\ acc = AccountOf({"Inbox"})
    /\ disk = {}
    /\ wire = NoStream
    /\ ctl = NoConnections
    /\ \E ids \in SUBSET (1..MaxQueued) :
          \E rcpt \in [ids -> Recipients], transport \in [ids -> {"", "relay", "other"}] :
             queue = [NewQueue(0, MaxAttempts) EXCEPT
                         !.msgs = {Waiting(id, rcpt[id], IF id = 1 THEN 0 ELSE 1, transport[id]) :
                                     id \in ids},
                         !.nextID = MaxQueued + 1]
SpecKick == InitKick /\ [][NextKick]_vars

----------------------------------------------------------------------------
(* The retrain command. *)

Flags == {"junk", "notjunk", ""}
\* The outcomes of the calls of the handler: opening the account, whether
\* the account has a junk filter configured, the two removals, opening
\* the junk filter, the message at which training fails (0: at none),
\* closing the junk filter; and the flags of the messages.
RetrainInputs(a, files) ==
    [open : {"ok", "error"}, conf : BOOLEAN, rmdb : {"ok", "error"}, rmbloom : {"ok", "error"},
     openjf : {"ok", "error"}, failAt : 0..a.lastMessageID, close : {"ok", "error"},
     flags : [{msg.ID : msg \in a.messages} -> Flags], before : {files}]

CtlRetrain ==
    /\ CanServe(1)
    /\ \E in \in RetrainInputs(acc, disk) :
          LET out == ctlRetrain(acc, AccountName, disk, in)
          IN /\ disk' = out.disk
             /\ calls' = out.calls
             /\ ctl' = [ctl EXCEPT ![1] = afterCommand(@, Request("retrain", in),
                                                       out.lines, out.fails)]
    /\ UNCHANGED <<d, env, pc, result, m, jitter, hint, acc, checked, wire, queue>>
    /\ UNCHANGED otherVars

NextRetrain == CtlRetrain

\* The account holds up to MaxMessages messages; its junk filter was never
\* trained, or was trained with the messages flagged by then.
InitRetrain ==
    /\ AtRest
    /\ sts = NoSTS
    /\ locks = NoLocks
    /\ \E n \in 0..MaxMessages :
          LET a0 == AccountOf({"Inbox"})
              inbox == CHOOSE mb \in a0.mailboxes : TRUE
              a1 == IF n >= 1 THEN deliver(a0, inbox, inbox.ID) ELSE a0
              mb1 == CHOOSE mb \in a1.mailboxes : TRUE
              a2 == IF n >= 2 THEN deliver(a1, mb1, mb1.ID) ELSE a1
              mb2 == CHOOSE mb \in a2.mailboxes : TRUE
              a3 == IF n >= 3 THEN deliver(a2, mb2, mb2.ID) ELSE a2
          IN acc = a3
    /\ \E old \in {<<>>, <<1>>} :
          disk \in {{}, {File(JunkFilterDB(AccountName), old),
                         File(JunkFilterBloom(AccountName), <<>>)}}
    /\ wire = NoStream
    /\ ctl = <<NewConnection(1)>>
    /\ queue = NoQueue
SpecRetrain == InitRetrain /\ [][NextRetrain]_vars

----------------------------------------------------------------------------
(* MTA-STS, package mtasts: names are sequences of characters. *)

MaxLabels == 3
MaxMX == 2

Letters == {"a", "b"}

\* The dotted name of a list of labels.
RECURSIVE Dotted(_)
Dotted(labels) ==
    IF Len(labels) = 0 THEN <<>>
    ELSE IF Len(labels) = 1 THEN <<labels[1]>>
    ELSE <<labels[1], ".">> \o Dotted(Tail(labels))

\* dns.Domain of an ASCII-only name: the Unicode field is empty.
Domain(name) == [ASCII |-> name, Unicode |-> <<>>]

Names(n) == {Dotted(ls) : ls \in UNION {[1..k -> Letters] : k \in 1..n}}

STSMX(wildcard, domain) == [Wildcard |-> wildcard, Domain |-> domain]

\* The index of the first "." in s, 0 when there is none.
IndexDot(s) ==
    IF \E i \in 1..Len(s) : s[i] = "."
    THEN CHOOSE i \in 1..Len(s) : s[i] = "." /\ \A j \in 1..(i - 1) : s[j] # "."
    ELSE 0

\* strings.SplitN(s, ".", 2)
SplitN2(s) ==
    LET i == IndexDot(s) IN
    IF i = 0 THEN <<s>> ELSE <<SubSeq(s, 1, i - 1), SubSeq(s, i + 1, Len(s))>>

\* A wildcard that matches at any depth.
MatchesAnyDepth(p, host) ==
    \E i \in 1..Len(p.MX) :
        LET mx == p.MX[i] IN
        IF mx.Wildcard
        THEN \E k \in 1..Len(host.ASCII) :
                 /\ host.ASCII[k] = "."
                 /\ SubSeq(host.ASCII, k + 1, Len(host.ASCII)) = mx.Domain.ASCII
        ELSE host = mx.Domain

\* Policy.Matches
Matches(p, host) ==
    \E i \in 1..Len(p.MX) :
        LET mx == p.MX[i] IN
        IF mx.Wildcard
        THEN LET v == SplitN2(host.ASCII) IN Len(v) = 2 /\ v[2] = mx.Domain.ASCII
        ELSE host = mx.Domain

MXs == {STSMX(w, Domain(n)) : w \in BOOLEAN, n \in Names(MaxLabels - 1)}

Policies == {[MX |-> mx] : mx \in UNION {[1..k -> MXs] : k \in 0..MaxMX}}

PolicyMatches ==
    /\ sts.mode = "policy"
    /\ sts' = [sts EXCEPT !.mode = "matched", !.matched = Matches(sts.policy, sts.host)]
    /\ UNCHANGED <<analyzeVars, acc, checked, ctlVars, locks>>

\* The mail store, the control socket and the queue are at rest.
Elsewhere ==
    /\ AtRest
    /\ acc = AccountOf({"Inbox"})
    /\ disk = {}
    /\ wire = NoStream
    /\ ctl = NoConnections
    /\ queue = NoQueue

InitMatches ==
    /\ Elsewhere
    /\ locks = NoLocks
    /\ \E p \in Policies, n \in Names(MaxLabels) :
          sts = [mode |-> "policy", policy |-> p, host |-> Domain(n), matched |-> FALSE]
NextMatches == PolicyMatches
SpecMatches == InitMatches /\ [][NextMatches]_vars

----------------------------------------------------------------------------
(* mtasts.LookupRecord, one resolver call per step. *)

MaxTXT == 2
maxCNAMEs == 16

\* An error: its message and the sentinel errors errors.Is finds in it.
stsError(msg, is) == [msg |-> msg, is |-> is]
stsNil == stsError("", {})
ErrNoRecord == stsError("mtasts: no mta-sts dns txt record", {"ErrNoRecord"})
ErrMultipleRecords == stsError("mtasts: multiple mta-sts records", {"ErrMultipleRecords"})
ErrDNS == stsError("mtasts: dns lookup: dns error", {"ErrDNS"})
ErrRecordSyntax == stsError("mtasts: record syntax error", {"ErrRecordSyntax"})
ErrTooManyCNAMEs == stsError("too many cnames", {})

\* TXT records: a valid MTA-STS record, one with a syntax error, another kind.
TXTs == {"v=STSv1; id=1", "v=STSv1; id=", "v=spf1 -all"}

\* ParseRecord: the record, whether it is an MTA-STS record, the error.
ParseRecord(txt) ==
    IF txt = "v=STSv1; id=1"
    THEN [record |-> Ptr([Version |-> "STSv1", ID |-> "1"]), ismtasts |-> TRUE, err |-> stsNil]
    ELSE IF txt = "v=STSv1; id="
    THEN [record |-> nil, ismtasts |-> TRUE, err |-> ErrRecordSyntax]
    ELSE [record |-> nil, ismtasts |-> FALSE, err |-> ErrRecordSyntax]

\* The name the lookup starts at.
STSName(domain) == <<"_mta-sts", ".">> \o domain.ASCII \o <<".">>

\* What LookupRecord returns.
Looked(record, txt, cnames, err) ==
    [record |-> record, txt |-> txt, cnames |-> cnames, err |-> err]

\* The loop over the TXT records, from record i on.
RECURSIVE parseRecords(_, _, _, _, _)
parseRecords(txts, i, record, text, cnames) ==
    IF i > Len(txts)
    THEN IF record = nil THEN Looked(nil, "", cnames, ErrNoRecord)
         ELSE Looked(record, text, cnames, stsNil)
    ELSE LET p == ParseRecord(txts[i]) IN
         IF ~p.ismtasts THEN parseRecords(txts, i + 1, record, text, cnames)
         ELSE IF p.err # stsNil THEN Looked(nil, "", cnames, p.err)
         ELSE IF record # nil THEN Looked(nil, "", cnames, ErrMultipleRecords)
         ELSE parseRecords(txts, i + 1, p.record, txts[i], cnames)

\* A limit that lets one more CNAME through.
tooManyLate(cnames) == Len(cnames) > maxCNAMEs + 1

\* The limit on the CNAMEs followed.
tooMany(cnames) == Len(cnames) > maxCNAMEs

\* The resolver's answers.
NotFound == [err |-> "notfound", txts |-> <<>>, cname |-> <<>>]
OtherError == [err |-> "error", txts |-> <<>>, cname |-> <<>>]
TXTAnswer(txts) == [err |-> "nil", txts |-> txts, cname |-> <<>>]
CNAMEAnswer(cname) == [err |-> "nil", txts |-> <<>>, cname |-> cname]

\* A lookup that is about to start.
NewLookup(resolver, domain) ==
    [mode |-> "lookup", resolver |-> resolver, domain |-> domain,
     name |-> STSName(domain), cnames |-> nil, txts |-> <<>>, pc |-> "txt",
     calls |-> <<>>, out |-> Looked(nil, "", nil, stsNil),
     get |-> "none", http |-> <<>>, got |-> <<>>]

Return(s, looked) == [s EXCEPT !.pc = "done", !.out = looked]

LookupTXT ==
    /\ sts.mode = "lookup"
    /\ sts.pc = "txt"
    /\ LET a == sts.resolver[sts.name].txt
           s == [sts EXCEPT !.calls = Append(@, [op |-> "LookupTXT", name |-> sts.name])]
       IN sts' = IF a.err = "notfound"
                 THEN IF tooMany(s.cnames)
                      THEN Return(s, Looked(nil, "", s.cnames, ErrTooManyCNAMEs))
                      ELSE [s EXCEPT !.pc = "cname"]
                 ELSE IF a.err # "nil"
                 THEN Return(s, Looked(nil, "", s.cnames, ErrDNS))
                 ELSE [s EXCEPT !.pc = "parse", !.txts = a.txts]
    /\ UNCHANGED <<analyzeVars, acc, checked, ctlVars, locks>>

LookupCNAME ==
    /\ sts.mode = "lookup"
    /\ sts.pc = "cname"
    /\ LET a == sts.resolver[sts.name].cname
           s == [sts EXCEPT !.calls = Append(@, [op |-> "LookupCNAME", name |-> sts.name])]
       IN sts' = IF a.err = "notfound"
                 THEN Return(s, Looked(nil, "", s.cnames, ErrNoRecord))
                 ELSE IF a.err # "nil"
                 THEN Return(s, Looked(nil, "", s.cnames, ErrDNS))
                 ELSE [s EXCEPT !.cnames = Append(@, a.cname), !.name = a.cname, !.pc = "txt"]
    /\ UNCHANGED <<analyzeVars, acc, checked, ctlVars, locks>>

ParseRecords ==
    /\ sts.mode = "lookup"
    /\ sts.pc = "parse"
    /\ sts' = Return(sts, parseRecords(sts.txts, 1, nil, "", sts.cnames))
    /\ UNCHANGED <<analyzeVars, acc, checked, ctlVars, locks>>

LookupDomain == Domain(<<"a">>)
LookupNames == {STSName(LookupDomain), <<"b", ".">>}
TXTAnswers ==
    {NotFound, OtherError}
        \cup {TXTAnswer(t) : t \in UNION {[1..k -> TXTs] : k \in 0..MaxTXT}}
CNAMEAnswers == {NotFound, OtherError} \cup {CNAMEAnswer(n) : n \in LookupNames}
Resolvers == [LookupNames -> [txt : TXTAnswers, cname : CNAMEAnswers]]

InitLookup ==
    /\ Elsewhere
    /\ locks = NoLocks
    /\ \E r \in Resolvers : sts = NewLookup(r, LookupDomain)
NextLookup == LookupTXT \/ LookupCNAME \/ ParseRecords
SpecLookup == InitLookup /\ [][NextLookup]_vars
\* LookupRecord runs on: each of its steps is taken once it is possible.
FairLookup == SpecLookup /\ WF_vars(NextLookup)

----------------------------------------------------------------------------
(* mtasts.Get: the lookup, then the fetch of the policy. *)

ErrNoPolicy == stsError("mtasts: no policy served", {"ErrNoPolicy"})
ErrPolicyFetch == stsError("mtasts: cannot fetch policy", {"ErrPolicyFetch"})
ErrPolicySyntax == stsError("mtasts: policy syntax error", {"ErrPolicySyntax"})
ErrParsingPolicy == stsError("parsing policy: mtasts: policy syntax error", {"ErrPolicySyntax"})

StatusOK == 200
StatusNotFound == 404

PolicyTexts == {"version: STSv1 mode: enforce mx: a max_age: 86400", "version: STSv2"}

\* ParsePolicy: the policy of a text, or a syntax error.
ParsePolicy(text) ==
    IF text = "version: STSv1 mode: enforce mx: a max_age: 86400"
    THEN [policy |-> Ptr([MX |-> <<STSMX(FALSE, Domain(<<"a">>))>>]), err |-> stsNil]
    ELSE [policy |-> nil, err |-> ErrPolicySyntax]

\* What the web server at mta-sts.<domain> does with the request.
HTTPAnswer(err, status, readable, body) ==
    [err |-> err, status |-> status, readable |-> readable, body |-> body]
HTTPAnswers ==
    {HTTPAnswer("notfound", 0, FALSE, ""), HTTPAnswer("error", 0, FALSE, "")}
        \cup {HTTPAnswer("nil", st, FALSE, "") : st \in {StatusOK, StatusNotFound, 500}}
        \cup {HTTPAnswer("nil", StatusOK, TRUE, t) : t \in PolicyTexts}

Fetched(policy, policyText, err) == [policy |-> policy, policyText |-> policyText, err |-> err]

FetchPolicy(http) ==
    IF http.err = "notfound" THEN Fetched(nil, "", ErrNoPolicy)
    ELSE IF http.err # "nil" THEN Fetched(nil, "", ErrPolicyFetch)
    ELSE IF http.status = StatusNotFound THEN Fetched(nil, "", ErrNoPolicy)
    ELSE IF http.status # StatusOK THEN Fetched(nil, "", ErrPolicyFetch)
    ELSE IF ~http.readable THEN Fetched(nil, "", ErrPolicySyntax)
    ELSE LET p == ParsePolicy(http.body) IN
         IF p.err # stsNil THEN Fetched(nil, http.body, ErrParsingPolicy)
         ELSE Fetched(p.policy, http.body, stsNil)

\* What Get returns.
Got(record, policy, err) == [record |-> record, policy |-> policy, err |-> err]

\* A Get that forgets the record when the fetch fails.
getFetchedAlone(record, fetched) ==
    IF fetched.err # stsNil THEN Got(nil, nil, fetched.err)
    ELSE Got(record, fetched.policy, stsNil)

\* Get, after FetchPolicy has returned.
getFetched(record, fetched) ==
    IF fetched.err # stsNil THEN Got(record, nil, fetched.err)
    ELSE Got(record, fetched.policy, stsNil)

\* Get returns the error of LookupRecord.
GetLookupError ==
    /\ sts.mode = "lookup"
    /\ sts.get = "lookup"
    /\ sts.pc = "done"
    /\ sts.out.err # stsNil
    /\ sts' = [sts EXCEPT !.get = "returned", !.got = Got(nil, nil, sts.out.err)]
    /\ UNCHANGED <<analyzeVars, acc, checked, ctlVars, locks>>

\* Get fetches the policy and returns.
GetFetchPolicy ==
    /\ sts.mode = "lookup"
    /\ sts.get = "lookup"
    /\ sts.pc = "done"
    /\ sts.out.err = stsNil
    /\ \E http \in HTTPAnswers :
          sts' = [sts EXCEPT !.get = "returned",
                             !.calls = Append(@, [op |-> "HTTPClient.Do", name |-> sts.domain.ASCII]),
                             !.http = http,
                             !.got = getFetched(sts.out.record, FetchPolicy(http))]
    /\ UNCHANGED <<analyzeVars, acc, checked, ctlVars, locks>>

InitGet ==
    /\ Elsewhere
    /\ locks = NoLocks
    /\ \E r \in Resolvers : sts = [NewLookup(r, LookupDomain) EXCEPT !.get = "lookup"]
NextGet == LookupTXT \/ LookupCNAME \/ ParseRecords \/ GetLookupError \/ GetFetchPolicy
SpecGet == InitGet /\ [][NextGet]_vars

----------------------------------------------------------------------------
(* Accounts in use by several tasks at once: SMTP deliveries being analyzed *)
(* and ctl commands, each a sequence of steps on one account.              *)

Tasks == {"smtp1", "smtp2", "ctl1", "ctl2"}
LockAccounts == {AccountName, "other"}

\* A step of a task: a store call, lock or unlock, or other work.
Step(op, what) == [op |-> op, what |-> what]
Work(what) == Step("Work", what)

\* analyze: the reputation lookup, then the content classification.
analyzeSteps ==
    <<Step("RLock", "WithRLock"), Work("reputation"), Step("RUnlock", "WithRLock"),
      Work("OpenJunkFilter"), Work("ClassifyMessageReader"), Work("f.Close")>>

\* ctl deliver with Deliver called without the lock.
ctlDeliverStepsUnlocked ==
    <<Step("Open", "OpenEmail"), Work("xstreamto"), Work("Deliver"),
      Step("Close", "a.Close")>>

\* ctl deliver
ctlDeliverSteps ==
    <<Step("Open", "OpenEmail"), Work("xstreamto"),
      Step("WLock", "WithWLock"), Work("Deliver"), Step("WUnlock", "WithWLock"),
      Step("Close", "a.Close")>>

\* ctl setaccountpassword
ctlSetPasswordSteps ==
    <<Step("Open", "OpenEmail"), Work("SetPassword"), Step("Close", "acc.Close")>>

\* ctl retrain
ctlRetrainSteps ==
    <<Step("Open", "OpenAccount"),
      Step("WLock", "WithWLock"), Work("Conf"), Work("os.Remove"), Work("OpenJunkFilter"),
      Work("TrainMessage"), Work("jf.Close"), Step("WUnlock", "WithWLock")>>

Kinds == {"analyze", "deliver", "setaccountpassword", "retrain"}

StepsOf(kind) ==
    IF kind = "analyze" THEN analyzeSteps
    ELSE IF kind = "deliver" THEN ctlDeliverSteps
    ELSE IF kind = "setaccountpassword" THEN ctlSetPasswordSteps
    ELSE ctlRetrainSteps

\* Work whose failure is only logged.
OnlyLogged == {"os.Remove", "f.Close"}

\* A task before its first step.
NewTask(kind, account) ==
    [kind |-> kind, account |-> account, pc |-> 1, holds |-> "none",
     opened |-> 0, closed |-> 0, status |-> "running"]

\* An account nobody has open.
IdleAccount == [refs |-> 0, readers |-> 0, writer |-> FALSE]

AtStep(t) == StepsOf(t.kind)[t.pc]
CanStep(p, ops) == locks.tasks[p].status = "running" /\ AtStep(locks.tasks[p]).op \in ops

\* The task after its step: at the next one, or done.
Advance(t) ==
    IF t.pc = Len(StepsOf(t.kind)) THEN [t EXCEPT !.pc = @ + 1, !.status = "ok"]
    ELSE [t EXCEPT !.pc = @ + 1]

\* sync.RWMutex
canLock(a, op) == IF op = "RLock" THEN ~a.writer ELSE ~a.writer /\ a.readers = 0
locked(a, op) ==
    IF op = "RLock" THEN [a EXCEPT !.readers = @ + 1] ELSE [a EXCEPT !.writer = TRUE]
unlocked(a, holds) ==
    IF holds = "R" THEN [a EXCEPT !.readers = @ - 1]
    ELSE IF holds = "W" THEN [a EXCEPT !.writer = FALSE]
    ELSE a

\* The handler's deferred account close: only setaccountpassword has one.
deferredClose(t) == IF t.kind = "setaccountpassword" /\ t.opened > 0 THEN 1 ELSE 0

\* A step failed: the function passed to WithRLock or WithWLock returns or
\* panics, which releases the lock; the deferred calls run; the task ends.
Abort(s, p) ==
    LET t == s.tasks[p]
        n == deferredClose(t)
    IN [s EXCEPT !.tasks[p] = [t EXCEPT !.status = "error", !.holds = "none",
                                        !.closed = @ + n],
                 !.accounts[t.account] =
                     [unlocked(@, t.holds) EXCEPT !.refs = @ - n]]

\* store.OpenAccount, store.OpenEmail
AccountOpen(p) ==
    /\ locks.mode = "tasks"
    /\ CanStep(p, {"Open"})
    /\ LET t == locks.tasks[p] IN
       \/ locks' = [locks EXCEPT !.tasks[p] = Advance([t EXCEPT !.opened = @ + 1]),
                                 !.accounts[t.account].refs = @ + 1]
       \/ locks' = Abort(locks, p)
    /\ UNCHANGED <<analyzeVars, acc, checked, ctlVars, sts>>

\* Account.Close
AccountClose(p) ==
    /\ locks.mode = "tasks"
    /\ CanStep(p, {"Close"})
    /\ LET t == locks.tasks[p]
           s == [locks EXCEPT !.tasks[p].closed = @ + 1,
                              !.accounts[t.account].refs = @ - 1]
       IN \/ locks' = [s EXCEPT !.tasks[p] = Advance(@)]
          \/ locks' = Abort(s, p)
    /\ UNCHANGED <<analyzeVars, acc, checked, ctlVars, sts>>

\* Account.WithRLock, Account.WithWLock: the lock is taken
AccountLock(p) ==
    /\ locks.mode = "tasks"
    /\ CanStep(p, {"RLock", "WLock"})
    /\ LET t == locks.tasks[p]
           op == AtStep(t).op
       IN /\ canLock(locks.accounts[t.account], op)
          /\ locks' = [locks EXCEPT
                 !.tasks[p] = Advance([t EXCEPT !.holds = IF op = "RLock" THEN "R" ELSE "W"]),
                 !.accounts[t.account] = locked(@, op)]
    /\ UNCHANGED <<analyzeVars, acc, checked, ctlVars, sts>>

\* Account.WithRLock, Account.WithWLock: the function has returned
AccountUnlock(p) ==
    /\ locks.mode = "tasks"
    /\ CanStep(p, {"RUnlock", "WUnlock"})
    /\ LET t == locks.tasks[p] IN
       locks' = [locks EXCEPT !.tasks[p] = Advance([t EXCEPT !.holds = "none"]),
                              !.accounts[t.account] = unlocked(@, t.holds)]
    /\ UNCHANGED <<analyzeVars, acc, checked, ctlVars, sts>>

\* Any other call of the task ends, with or without an error.
TaskWork(p) ==
    /\ locks.mode = "tasks"
    /\ CanStep(p, {"Work"})
    /\ \/ locks' = [locks EXCEPT !.tasks[p] = Advance(@)]
       \/ /\ AtStep(locks.tasks[p]).what \notin OnlyLogged
          /\ locks' = Abort(locks, p)
    /\ UNCHANGED <<analyzeVars, acc, checked, ctlVars, sts>>

InitTasks ==
    /\ Elsewhere
    /\ sts = NoSTS
    /\ \E a2 \in LockAccounts, k1 \in Kinds \ {"analyze"}, k2 \in Kinds \ {"analyze"},
          a4 \in LockAccounts :
          locks = [mode |-> "tasks",
                   accounts |-> [a \in LockAccounts |-> IdleAccount],
                   tasks |-> [p \in Tasks |->
                       IF p = "smtp1" THEN NewTask("analyze", AccountName)
                       ELSE IF p = "smtp2" THEN NewTask("analyze", a2)
                       ELSE IF p = "ctl1" THEN NewTask(k1, AccountName)
                       ELSE NewTask(k2, a4)]]
NextTasks ==
    \E p \in Tasks :
       \/ AccountOpen(p)
       \/ AccountClose(p)
       \/ AccountLock(p)
       \/ AccountUnlock(p)
       \/ TaskWork(p)
SpecTasks == InitTasks /\ [][NextTasks]_vars

----------------------------------------------------------------------------
(* The data stream with a Write of no bytes, and a reader whose peer sends *)
(* any bytes.                                                              *)

MaxEmptyWrites == 1
MaxPeerLen == 4

\* ctlwriter.Write with an empty buffer.
StreamWriteEmpty ==
    /\ wire.mode = "stream" /\ wire.wpc = "idle"
    /\ wire.empty < MaxEmptyWrites
    /\ wire' = [ctlwriterWrite(wire, <<>>) EXCEPT !.empty = @ + 1]
    /\ UNCHANGED <<analyzeVars, acc, checked, disk, ctl, queue>>
    /\ UNCHANGED otherVars

\* Writer and reader run on, each at its own pace.
NextWrites == StreamWrite \/ StreamWriteEmpty \/ StreamResponse \/ StreamClose \/ StreamRead
FairStream ==
    /\ InitStream
    /\ [][NextWrites]_vars
    /\ WF_vars(StreamWrite \/ StreamWriteEmpty \/ StreamResponse \/ StreamClose)
    /\ WF_vars(StreamRead)

\* The bytes a peer may send: a sign, digits, a letter, a newline.
PeerBytes == {"-", "1", "2", "a", LF}
RECURSIVE PeerSeqs(_)
PeerSeqs(n) ==
    IF n = 0 THEN {<<>>}
    ELSE LET shorter == PeerSeqs(n - 1)
         IN shorter \cup {Append(q, b) : q \in {x \in shorter : Len(x) = n - 1}, b \in PeerBytes}

\* The reader's peer is a ctlwriter, or it has sent bytes of its own.
InitFlow ==
    /\ AtRest
    /\ sts = NoSTS
    /\ locks = NoLocks
    /\ acc = AccountOf({"Inbox"})
    /\ disk = {}
    /\ \/ \E data \in ByteSeqs(MaxMsgLen - 1) : wire = Stream(data)
       \/ \E sent \in PeerSeqs(MaxPeerLen) :
             wire = [Stream(<<>>) EXCEPT !.wpc = "peer", !.c2s = sent]
    /\ ctl = NoConnections
    /\ queue = NoQueue
SpecFlow == InitFlow /\ [][NextStream]_vars

----------------------------------------------------------------------------
(* The cases the properties are about, stated on the delivery and on the  *)
(* collaborators' answers.                                                *)

Done == pc = "done"

\* Step 1 applies: the ruleset names a list domain that the validated MAIL
\* FROM domain or a passing DKIM signature matches.
ListAllowCase ==
    /\ env.rs.present
    /\ env.rs.ListAllowDNSDomain /= ""
    /\ \/ d.m.MailFromValidated /\ d.m.MailFromDomain = env.rs.ListAllowDNSDomain
       \/ \E i \in DOMAIN d.dkimResults :
             /\ d.dkimResults[i].Status = "pass"
             /\ d.dkimResults[i].Domain = env.rs.ListAllowDNSDomain

\* Step 2 applies: DMARC is in use and its result is reject.
DMARCRejectCase == d.dmarcUse /\ d.dmarcResult.Reject

\* A validated DMARC or TLS report is extracted in step 3.
ReportExtracted ==
    \/ /\ d.destination.DMARCReports
       /\ d.dmarcResult.Status = "pass"
       /\ ~env.dmarcrpt.parseErr
       /\ ~env.dmarcrpt.domainErr
       /\ env.dmarcrpt.configured
       /\ env.dmarcrpt.end <= env.now + 60
    \/ /\ d.destination.TLSReports
       /\ \E i \in DOMAIN d.dkimResults :
             /\ d.dkimResults[i].Status = "pass"
             /\ d.dkimResults[i].Domain = d.msgFrom.Domain
             /\ d.dkimResults[i].Length < 0
             /\ d.dkimResults[i].ServiceTLSRPT
       /\ ~env.tlsrpt.parseErr
       /\ \E i \in DOMAIN env.tlsrpt.policies : env.tlsrpt.policies[i] = "local"

\* The reputation lookup returns without error.
ReputationSucceeds == ~env.mailboxFindErr /\ ~env.reputation.err

\* The method is one of dkim-spf, ip1, ip2, ip3, none.
WeakMethodCase == env.reputation.method \in {"dkim-spf", "ip1", "ip2", "ip3", "none"}

\* The SPF gate rejects.
SPFCase == WeakMethodCase /\ d.m.MailFromValidation \in {"fail", "softfail"}

\* The iprev check is suspicious, and it rejects.
SuspiciousIPrevCase == WeakMethodCase /\ d.iprevStatus /= "pass"
IPrevCase == SuspiciousIPrevCase /\ env.reputation.isjunk = "true"

\* No verdict before the reputation step, before the SPF gate, the iprev
\* check, the subjectpass check and the content classification.
NoVerdictBeforeReputation == ~ListAllowCase /\ ~DMARCRejectCase
NoVerdictBeforeSPF ==
    /\ NoVerdictBeforeReputation
    /\ ReputationSucceeds
    /\ ~env.reputation.conclusive
    /\ ~ReportExtracted
NoVerdictBeforeIPrev == NoVerdictBeforeSPF /\ ~SPFCase
NoVerdictBeforeSubjectpass == NoVerdictBeforeIPrev /\ ~IPrevCase

\* The calls of a kind made by analyze.
Called(op) == \E i \in DOMAIN calls : calls[i].op = op
ZoneCalls == SelectSeq(calls, LAMBDA c : c.zone /= 0)
NoJunkFilterOrDNSBL ==
    /\ ~Called("OpenJunkFilter")
    /\ ~Called("ClassifyMessageReader")
    /\ ZoneCalls = <<>>

\* A rejection with 451 5.3.0 "error processing", no error attached.
SoftReject(reason) ==
    result = [accept |-> FALSE, code |-> 451, secode |-> "5.3.0", userError |-> TRUE,
              errmsg |-> [text |-> "error processing", token |-> <<>>], err |-> "nil",
              dmarcReport |-> FALSE, tlsReport |-> FALSE, reason |-> reason]

----------------------------------------------------------------------------
(* C1: when the ruleset names a list domain and the validated MAIL FROM     *)
(* domain is it, or a passing DKIM signature is of it, analyze accepts     *)
(* with reason list-allow before any other step: also when DMARC is in use *)
(* and rejects, and without calling any collaborator.                      *)
C1_ListAllowFirst ==
    Done /\ ListAllowCase =>
        /\ result.accept
        /\ result.reason = "list-allow"
        /\ result.code = 0
        /\ calls = <<>>

\* C1's case: accepted through a DKIM signature alone although DMARC rejects,
\* reputation is conclusively junk and SPF and iprev fail.
C1_Witness ==
    /\ Done /\ ListAllowCase
    /\ ~d.m.MailFromValidated
    /\ DMARCRejectCase
    /\ env.reputation.conclusive /\ env.reputation.isjunk = "true"
    /\ d.m.MailFromValidation = "fail" /\ d.iprevStatus = "fail"
    /\ result.accept

(* C2: when step 1 gives no verdict, DMARC is in use and its result is     *)
(* reject, analyze rejects with 550 5.7.26 and reason dmarc-policy, and    *)
(* neither reputation, the junk filter nor a DNSBL is consulted.           *)
C2_DMARCReject ==
    Done /\ ~ListAllowCase /\ DMARCRejectCase =>
        /\ ~result.accept
        /\ result.code = 550
        /\ result.secode = "5.7.26"
        /\ result.reason = "dmarc-policy"
        /\ ~Called("reputation")
        /\ NoJunkFilterOrDNSBL

\* C2's case: a DMARC reject of a message a list ruleset did not allow, from
\* a sender whose reputation would have accepted it.
C2_Witness ==
    /\ Done /\ ~ListAllowCase /\ DMARCRejectCase
    /\ env.rs.ListAllowDNSDomain /= ""
    /\ env.reputation.conclusive /\ env.reputation.isjunk = "false"
    /\ result.code = 550

(* C3: when steps 1-2 give no verdict and the reputation lookup succeeds   *)
(* with conclusive = true, the verdict is reputation's alone: accept with  *)
(* reason = method if not junk, else reject 451 5.3.0 with reason =        *)
(* method; SPF, iprev, subjectpass, junk filter and DNSBLs are not         *)
(* evaluated.                                                              *)
C3_ConclusiveReputation ==
    Done /\ NoVerdictBeforeReputation /\ ReputationSucceeds /\ env.reputation.conclusive =>
        /\ IF env.reputation.isjunk = "false"
           THEN result.accept /\ result.code = 0
                /\ result.reason = env.reputation.method
           ELSE SoftReject(env.reputation.method)
        /\ ~Called("Subjectpass")
        /\ ~Called("subjectpass.Verify")
        /\ NoJunkFilterOrDNSBL

\* C3's case: conclusive ham is accepted although SPF fails, iprev fails,
\* the content is spam and a DNSBL lists the sender.
C3_Witness ==
    /\ Done /\ NoVerdictBeforeReputation /\ ReputationSucceeds
    /\ env.reputation.conclusive /\ env.reputation.isjunk = "false"
    /\ env.reputation.method = "ip1"
    /\ d.m.MailFromValidation = "fail" /\ d.iprevStatus = "fail"
    /\ env.junk.open = "ok" /\ env.junk.contentProb > env.junk.Threshold
    /\ Len(d.dnsBLs) > 0 /\ env.dnsbl[1].healthy /\ env.dnsbl[1].status = "fail"
    /\ result.accept

(* C4: when reputation is not conclusive and no report was extracted: with *)
(* a method of dkim-spf, ip1, ip2, ip3 or none and an SPF fail or softfail *)
(* analyze rejects with 451 5.3.0 and reason spf-policy; with a method of  *)
(* msgfrom-full, msgfrom-domain or msgfrom-org an SPF fail or softfail     *)
(* does not reject.                                                        *)
C4_SPFGate ==
    Done /\ NoVerdictBeforeSPF =>
        /\ SPFCase => SoftReject("spf-policy")
        /\ env.reputation.method \in {"msgfrom-full", "msgfrom-domain", "msgfrom-org"}
               => result.reason /= "spf-policy"

\* C4's case: a softfail is rejected for method none.
C4_Witness ==
    /\ Done /\ NoVerdictBeforeSPF
    /\ env.reputation.method = "none"
    /\ d.m.MailFromValidation = "softfail"
    /\ result.reason = "spf-policy"

(* C5: after the SPF gate passed: with a method of dkim-spf, ip1, ip2, ip3 *)
(* or none, an iprev status other than pass and isjunk present and true,   *)
(* analyze rejects with 451 5.3.0 and reason iprev; with isjunk absent or  *)
(* false a failing iprev does not reject at this step.                     *)
C5_IPrev ==
    Done /\ NoVerdictBeforeIPrev =>
        /\ IPrevCase => SoftReject("iprev")
        /\ env.reputation.isjunk \in {"nil", "false"} => result.reason /= "iprev"

\* C5's case: a mild junk signal with an iprev temperror is rejected.
C5_Witness ==
    /\ Done /\ NoVerdictBeforeIPrev
    /\ env.reputation.method = "dkim-spf"
    /\ env.reputation.isjunk = "true"
    /\ d.iprevStatus = "temperror"
    /\ result.reason = "iprev"

----------------------------------------------------------------------------
(* The cases of the later steps. *)

\* The message holds a valid, unexpired token of the account's key.
ValidToken ==
    \E i \in DOMAIN d.dataFile.tokens :
        LET t == d.dataFile.tokens[i] IN
        /\ t.mac = <<env.subjectpass.key, d.msgFrom, t.time>>
        /\ env.now - t.time <= env.conf.SubjectPassPeriod

\* The subjectpass step ends the analysis: the key cannot be read, or the token passes.
SubjectpassCase ==
    env.conf.SubjectPassPeriod > 0 /\ (env.subjectpass.keyErr \/ ValidToken)

NoVerdictBeforeContent == NoVerdictBeforeSubjectpass /\ ~SubjectpassCase

\* The junk filter exists and classifies the message.
ContentClassified ==
    NoVerdictBeforeContent /\ env.junk.open = "ok" /\ ~env.junk.classifyErr

\* The filter's threshold with the jitter drawn, and the threshold in force:
\* 0.25 when iprev is suspicious and the jittered threshold is above it.
JitteredT == env.junk.Threshold + jitter
StrictApplied == SuspiciousIPrevCase /\ JitteredT > 250
ThresholdInForce == IF StrictApplied THEN 250 ELSE JitteredT

\* The message was not rejected for its content.
PassesContent == result.reason \notin {"junk-content", "junk-content-strict"}

\* The DNSBL step is reached: no verdict before, and no junk filter or a
\* probability within the threshold.
DNSBLReached ==
    /\ NoVerdictBeforeContent
    /\ \/ env.junk.open = "none"
       \/ ContentClassified /\ env.junk.contentProb <= ThresholdInForce

\* The zone's answers: it lists the remote IP (asked or not), it is healthy.
Lists(z) == env.dnsbl[z].status = "fail"
Healthy(z) == env.dnsbl[z].healthy

\* The zones health-checked, in the order of the checks.
HealthChecked ==
    LET hc == SelectSeq(calls, LAMBDA c : c.op = "checkDNSBLHealth")
    IN [i \in DOMAIN hc |-> hc[i].zone]

\* Subjectpass is configured, DMARC passes and the sender has no history.
HintApplies ==
    /\ env.conf.SubjectPassPeriod > 0 /\ ~env.subjectpass.keyErr
    /\ d.dmarcResult.Status = "pass"
    /\ env.reputation.method = "none"

(* C6: when steps 1-6 give no verdict and the subjectpass period is        *)
(* positive, a message with a valid, unexpired token of the recipient      *)
(* address's key is accepted with reason subjectpass without the junk      *)
(* filter or a DNSBL being consulted; with a period of zero no key is      *)
(* fetched and no token is checked.                                        *)
C6_Subjectpass ==
    Done =>
        /\ ( /\ NoVerdictBeforeSubjectpass
             /\ env.conf.SubjectPassPeriod > 0
             /\ ~env.subjectpass.keyErr
             /\ ValidToken )
           => /\ result.accept
              /\ result.reason = "subjectpass"
              /\ result.code = 0
              /\ NoJunkFilterOrDNSBL
        /\ env.conf.SubjectPassPeriod = 0
           => ~Called("Subjectpass") /\ ~Called("subjectpass.Verify")

\* C6's case: a token at the end of its period lets spam of a listed sender in.
C6_Witness ==
    /\ Done /\ NoVerdictBeforeSubjectpass
    /\ env.conf.SubjectPassPeriod > 0 /\ ~env.subjectpass.keyErr /\ ValidToken
    /\ env.junk.open = "ok" /\ env.junk.contentProb > env.junk.Threshold + 50
    /\ Len(d.dnsBLs) > 0 /\ Healthy(1) /\ Lists(1)
    /\ result.reason = "subjectpass"

(* C7 as stated: the message passes content classification iff             *)
(* prob <= T, T the filter's threshold plus a jitter of at most 0.05, and  *)
(* T replaced by 0.25 whenever iprev is suspicious; a message that fails   *)
(* is rejected with 451 5.3.0 and reason junk-content, or                  *)
(* junk-content-strict when 0.25 was applied.                              *)
C7_AsStated ==
    Done /\ ContentClassified =>
        /\ jitter \in -50..50
        /\ PassesContent <=>
              env.junk.contentProb <= (IF SuspiciousIPrevCase THEN 250 ELSE JitteredT)
        /\ ~PassesContent =>
              SoftReject(IF SuspiciousIPrevCase THEN "junk-content-strict"
                         ELSE "junk-content")

(* C7, amended: the message passes content classification iff prob <= T,   *)
(* T the filter's threshold plus a jitter of at most 0.05, and T replaced  *)
(* by 0.25 when iprev is suspicious and T is above 0.25; a message that    *)
(* fails is rejected with 451 5.3.0 and reason junk-content, or            *)
(* junk-content-strict when 0.25 was applied.  Hence a message of a sender *)
(* without history with 0.25 < prob <= jittered threshold is rejected when *)
(* iprev is not pass, and passes when iprev is pass.                       *)
C7_ContentThreshold ==
    Done /\ ContentClassified =>
        /\ jitter \in -50..50
        /\ PassesContent <=> env.junk.contentProb <= ThresholdInForce
        /\ ~PassesContent =>
              SoftReject(IF StrictApplied THEN "junk-content-strict" ELSE "junk-content")
        /\ ( /\ env.reputation.method = "none"
             /\ 250 < env.junk.contentProb
             /\ env.junk.contentProb <= JitteredT )
           => IF d.iprevStatus /= "pass"
              THEN SoftReject("junk-content-strict")
              ELSE PassesContent

\* C7's case: a probability between 0.25 and the threshold is refused for a
\* sender without history whose iprev failed.
C7_Witness ==
    /\ Done /\ ContentClassified
    /\ env.reputation.method = "none"
    /\ d.iprevStatus = "fail"
    /\ env.junk.contentProb > 250
    /\ env.junk.contentProb <= JitteredT
    /\ jitter < 0
    /\ result.reason = "junk-content-strict"

(* C8: DNS blocklists are consulted only when every earlier step left the  *)
(* message accepted (after a content rejection neither a health check nor  *)
(* a lookup is made); the zones are checked one at a time in configured    *)
(* order, and the first zone that lists the remote IP ends the step with   *)
(* a rejection, 451 5.3.0 with reason dns-blocklisted when no subjectpass  *)
(* hint applies, without any later zone being consulted.                   *)
C8_DNSBLOrder ==
    Done =>
        /\ ZoneCalls /= <<>> => DNSBLReached
        /\ ~PassesContent => ZoneCalls = <<>>
        /\ \E k \in 0..Len(d.dnsBLs) : HealthChecked = SubSeq(d.dnsBLs, 1, k)
        /\ \A i \in DOMAIN ZoneCalls :
              ZoneCalls[i].op = "dnsbl.Lookup" /\ Lists(ZoneCalls[i].zone)
              => /\ i = Len(ZoneCalls)
                 /\ ~result.accept
                 /\ ~HintApplies => SoftReject("dns-blocklisted")
        /\ DNSBLReached =>
              \A i \in DOMAIN d.dnsBLs :
                 (\A j \in 1..(i - 1) : ~(Healthy(d.dnsBLs[j]) /\ Lists(d.dnsBLs[j])))
                 => \E c \in DOMAIN calls :
                       calls[c] = [op |-> "checkDNSBLHealth", zone |-> d.dnsBLs[i]]

\* C8's case: the first of two listing zones rejects, the second is not asked.
C8_Witness ==
    /\ Done /\ DNSBLReached
    /\ Len(d.dnsBLs) = 2
    /\ Healthy(1) /\ Lists(1) /\ Healthy(2) /\ Lists(2)
    /\ ZoneCalls = <<[op |-> "checkDNSBLHealth", zone |-> 1],
                     [op |-> "dnsbl.Lookup", zone |-> 1]>>
    /\ result.reason = "dns-blocklisted"

(* C9: when the health probe of a zone fails, no lookup is made against    *)
(* that zone and the zone cannot cause a rejection; a lookup is always     *)
(* preceded by the health probe of the same zone.                          *)
C9_UnhealthySkipped ==
    Done =>
        /\ \A i \in DOMAIN calls :
              calls[i].op = "dnsbl.Lookup"
              => /\ Healthy(calls[i].zone)
                 /\ i > 1
                 /\ calls[i - 1] = [op |-> "checkDNSBLHealth", zone |-> calls[i].zone]
        /\ ( /\ DNSBLReached
             /\ \A i \in DOMAIN d.dnsBLs : Lists(d.dnsBLs[i]) => ~Healthy(d.dnsBLs[i]) )
           => result.accept /\ result.reason = "no-bad-signals"

\* C9's case: an unhealthy zone that would list the sender is probed, not
\* asked, and the message is accepted.
C9_Witness ==
    /\ Done /\ DNSBLReached
    /\ Len(d.dnsBLs) = 2
    /\ ~Healthy(1) /\ Lists(1) /\ Healthy(2) /\ ~Lists(2)
    /\ ZoneCalls = <<[op |-> "checkDNSBLHealth", zone |-> 1],
                     [op |-> "checkDNSBLHealth", zone |-> 2],
                     [op |-> "dnsbl.Lookup", zone |-> 2]>>
    /\ result.accept

\* The final step rejects: for the content, or for a DNSBL listing.
RejectedForContent == ContentClassified /\ env.junk.contentProb > ThresholdInForce
RejectedForDNSBL ==
    DNSBLReached /\ \E i \in DOMAIN d.dnsBLs : Healthy(d.dnsBLs[i]) /\ Lists(d.dnsBLs[i])

\* The rejection with the subjectpass hint: 550 5.7.1, the explanation and a
\* token generated now for the message's From address.
HintReject ==
    result = [accept |-> FALSE, code |-> 550, secode |-> "5.7.1", userError |-> TRUE,
              errmsg |-> [text |-> Explanation,
                          token |-> <<Generate(d.msgFrom, env.subjectpass.key, env.now)>>],
              err |-> "nil", dmarcReport |-> FALSE, tlsReport |-> FALSE,
              reason |-> "give-subjectpass"]

(* C10: in the final step, when the message is rejected, subjectpass is    *)
(* configured, the DMARC status is pass, the method is none and the        *)
(* rejection was caused by a DNSBL listing or by spammy content, the       *)
(* response is 550 5.7.1 with reason give-subjectpass and the explanation  *)
(* followed by a fresh token for the From address; every other final       *)
(* rejection is 451 5.3.0.                                                 *)
C10_SubjectpassHint ==
    Done /\ (RejectedForContent \/ RejectedForDNSBL) =>
        IF HintApplies THEN HintReject
        ELSE result.code = 451 /\ result.secode = "5.3.0"

----------------------------------------------------------------------------
\* The delivery is the second one, of the message with the token in its Subject.
SecondDelivery == hint /= NoToken

\* Some zone the delivery goes through lists the remote IP and is healthy.
ListingExists == \E i \in DOMAIN d.dnsBLs : Healthy(d.dnsBLs[i]) /\ Lists(d.dnsBLs[i])

(* C11: the token of a 550 subjectpass rejection, put in the Subject of a   *)
(* later message of the same sender to the same address, makes the later   *)
(* delivery accepted with reason subjectpass, the DNSBL listing still in   *)
(* place, if and only if the later analysis is at most the configured      *)
(* period after the token was generated.                                   *)
C11_RoundTrip ==
    Done /\ SecondDelivery =>
        /\ ListingExists
        /\ (result.accept /\ result.reason = "subjectpass")
              <=> env.now - hint[1].time <= env.conf.SubjectPassPeriod
        /\ result.accept => NoJunkFilterOrDNSBL

\* C11's case: the second delivery is accepted at the very end of the period,
\* the zone still listing the sender.
C11_Witness ==
    /\ Done /\ SecondDelivery
    /\ ListingExists
    /\ d.dataFile.tokens = hint
    /\ env.now - hint[1].time = env.conf.SubjectPassPeriod
    /\ result.accept /\ result.reason = "subjectpass"

----------------------------------------------------------------------------
\* The internal errors: the reputation lookup (the mailbox lookup is part of
\* it), the subjectpass key, opening the junk filter, classifying.
ReputationErrorCase ==
    NoVerdictBeforeReputation /\ (env.mailboxFindErr \/ env.reputation.err)
SubjectpassKeyErrorCase ==
    NoVerdictBeforeSubjectpass /\ env.conf.SubjectPassPeriod > 0 /\ env.subjectpass.keyErr
JunkFilterErrorCase == NoVerdictBeforeContent /\ env.junk.open = "error"
ClassifyErrorCase ==
    NoVerdictBeforeContent /\ env.junk.open = "ok" /\ env.junk.classifyErr
InternalErrorCase ==
    \/ ReputationErrorCase
    \/ SubjectpassKeyErrorCase
    \/ JunkFilterErrorCase
    \/ ClassifyErrorCase

(* C12: a rejection caused by an internal error (reputation lookup,         *)
(* subjectpass key, opening the junk filter other than its absence,        *)
(* classification) has code 451, enhanced code 5.3.0 and userError false;  *)
(* a 5xx code occurs only for dmarc-policy (550 5.7.26) and                *)
(* give-subjectpass (550 5.7.1).                                           *)
C12_InternalErrors ==
    Done =>
        /\ InternalErrorCase =>
              /\ ~result.accept
              /\ result.code = 451
              /\ result.secode = "5.3.0"
              /\ ~result.userError
              /\ result.err /= "nil"
        /\ ReputationErrorCase => result.reason = "reputation-error"
        /\ SubjectpassKeyErrorCase => result.reason = "subjectpass-error"
        /\ JunkFilterErrorCase => result.reason = "junk-filter-error"
        /\ ClassifyErrorCase => result.reason = "junk-classify-error"
        /\ env.junk.open = "none" => result.reason /= "junk-filter-error"
        /\ result.code >= 500 =>
              \/ /\ result.reason = "dmarc-policy"
                 /\ result.code = 550 /\ result.secode = "5.7.26"
              \/ /\ result.reason = "give-subjectpass"
                 /\ result.code = 550 /\ result.secode = "5.7.1"
        /\ ~result.accept => result.code \in {451, 550}

\* C12's case: the classification fails for a message that would have got
\* the subjectpass hint, and the rejection is temporary and not the user's.
C12_Witness ==
    /\ Done /\ ClassifyErrorCase
    /\ HintApplies
    /\ ListingExists
    /\ result.code = 451 /\ result.secode = "5.3.0"
    /\ ~result.userError
    /\ result.reason = "junk-classify-error"

----------------------------------------------------------------------------
\* The lookup of the i-th zone is made and returns an error: the zone is
\* healthy, answers with a temporary error, and no earlier zone ended the step.
LookupErrorAt(i) ==
    /\ DNSBLReached
    /\ Healthy(d.dnsBLs[i])
    /\ env.dnsbl[d.dnsBLs[i]].status = "temperror"
    /\ \A j \in 1..(i - 1) : ~(Healthy(d.dnsBLs[j]) /\ Lists(d.dnsBLs[j]))
LookupErrorCase == \E i \in DOMAIN d.dnsBLs : LookupErrorAt(i)

(* C13 as stated: a DNSBL lookup that returns an error instead of a        *)
(* listed/not-listed answer results in a 451 5.3.0 rejection; it is not    *)
(* treated as not listed.                                                  *)
C13_AsStated ==
    Done /\ LookupErrorCase =>
        /\ ~result.accept
        /\ result.code = 451
        /\ result.secode = "5.3.0"

(* C13, amended: a DNSBL lookup that returns an error is treated as not    *)
(* listed: the next zone is consulted, and the message is accepted with    *)
(* reason no-bad-signals unless a healthy zone lists the sender; the error *)
(* itself never causes a rejection.                                        *)
C13_LookupErrorNotListed ==
    Done =>
        \A i \in DOMAIN d.dnsBLs :
            LookupErrorAt(i) =>
                /\ \E c \in DOMAIN calls :
                      calls[c] = [op |-> "dnsbl.Lookup", zone |-> d.dnsBLs[i]]
                /\ i < Len(d.dnsBLs) =>
                      \E c \in DOMAIN calls :
                         calls[c] = [op |-> "checkDNSBLHealth", zone |-> d.dnsBLs[i + 1]]
                /\ IF ListingExists
                   THEN ~result.accept
                        /\ result.reason \in {"dns-blocklisted", "give-subjectpass"}
                   ELSE result.accept /\ result.reason = "no-bad-signals"
                        /\ result.code = 0

\* C13's case: the first zone's lookup fails, the second zone does not list
\* the sender, and the message is accepted.
C13_Witness ==
    /\ Done
    /\ Len(d.dnsBLs) = 2
    /\ LookupErrorAt(1)
    /\ Healthy(2) /\ env.dnsbl[2].status = "pass"
    /\ ZoneCalls = <<[op |-> "checkDNSBLHealth", zone |-> 1],
                     [op |-> "dnsbl.Lookup", zone |-> 1],
                     [op |-> "checkDNSBLHealth", zone |-> 2],
                     [op |-> "dnsbl.Lookup", zone |-> 2]>>
    /\ result.accept

----------------------------------------------------------------------------
\* The message is a valid DMARC report for its destination: the destination
\* receives DMARC reports, the DMARC status is pass, the report parses, its
\* policy domain parses and is configured, its end is at most 60 s from now.
DMARCReportValid ==
    /\ d.destination.DMARCReports
    /\ d.dmarcResult.Status = "pass"
    /\ ~env.dmarcrpt.parseErr
    /\ ~env.dmarcrpt.domainErr
    /\ env.dmarcrpt.configured
    /\ env.dmarcrpt.end <= env.now + 60

\* Reputation answers, and not with a conclusive junk verdict: an accepting
\* result shows the reports analyze extracted.
ReportsVisible ==
    /\ NoVerdictBeforeReputation
    /\ ReputationSucceeds
    /\ ~(env.reputation.conclusive /\ env.reputation.isjunk = "true")

(* C14: a message to a DMARC-report destination yields a validated DMARC   *)
(* report iff the DMARC status is pass, the report parses, its policy      *)
(* domain parses and is a configured domain, and its date-range end is at  *)
(* most 60 s after now; otherwise the report is dropped, the message is    *)
(* not rejected for that and goes through the normal decision steps.       *)
C14_DMARCReport ==
    Done /\ ~d.destination.TLSReports =>
        /\ result.dmarcReport => DMARCReportValid
        /\ ReportsVisible => (result.dmarcReport <=> DMARCReportValid)
        /\ ReportsVisible /\ DMARCReportValid => result.accept
        /\ Called("dmarcrpt.ParseMessageReport") <=>
              /\ NoVerdictBeforeReputation
              /\ d.destination.DMARCReports
              /\ d.dmarcResult.Status = "pass"
        /\ NoVerdictBeforeReputation /\ ~DMARCReportValid =>
              /\ Called("MailboxFind")
              /\ result.reason /= "reporting"
              /\ ReputationSucceeds => Called("reputation")
              /\ NoVerdictBeforeSPF /\ SPFCase => SoftReject("spf-policy")
              /\ NoVerdictBeforeIPrev /\ IPrevCase => SoftReject("iprev")
              /\ NoVerdictBeforeContent => Called("OpenJunkFilter")

\* C14's case: a report whose range ends 60 s from now is kept and the
\* message accepted for it, although its content is spam.
C14_Witness ==
    /\ Done /\ DMARCReportValid
    /\ env.dmarcrpt.end = env.now + 60
    /\ ~env.reputation.conclusive
    /\ env.junk.contentProb > env.junk.Threshold
    /\ result.accept /\ result.dmarcReport
    /\ result.reason = "reporting"

----------------------------------------------------------------------------
\* Some DKIM result passes, is of the From-header domain, has no l= and
\* allows service tlsrpt.
TLSReportSigned ==
    \E i \in DOMAIN d.dkimResults :
        /\ d.dkimResults[i].Status = "pass"
        /\ d.dkimResults[i].Domain = d.msgFrom.Domain
        /\ d.dkimResults[i].Length < 0
        /\ d.dkimResults[i].ServiceTLSRPT

\* The report parses and names a configured policy domain.
TLSReportLocal ==
    /\ ~env.tlsrpt.parseErr
    /\ \E i \in DOMAIN env.tlsrpt.policies : env.tlsrpt.policies[i] = "local"

(* C15: a message to a TLS-report destination yields a validated TLS       *)
(* report only if some DKIM result passes, is of the From-header domain,   *)
(* has no l= and allows service tlsrpt, and the report parses and names a  *)
(* configured policy domain; a report whose policy domains are foreign is  *)
(* not kept, one with a configured policy domain is.                       *)
C15_TLSReport ==
    Done =>
        /\ result.tlsReport =>
              d.destination.TLSReports /\ TLSReportSigned /\ TLSReportLocal
        /\ ( /\ ReportsVisible
             /\ d.destination.TLSReports
             /\ TLSReportSigned
             /\ ~env.tlsrpt.parseErr )
           => /\ result.tlsReport <=>
                    \E i \in DOMAIN env.tlsrpt.policies : env.tlsrpt.policies[i] = "local"
              /\ result.tlsReport => result.accept
        /\ Called("tlsrpt.ParseMessage") <=>
              /\ NoVerdictBeforeReputation
              /\ d.destination.TLSReports
              /\ TLSReportSigned

\* C15's case: a signed report with a foreign and a configured policy domain
\* is kept.
C15_Witness ==
    /\ Done /\ ReportsVisible
    /\ d.destination.TLSReports /\ ~d.destination.DMARCReports
    /\ TLSReportSigned
    /\ ~env.tlsrpt.parseErr
    /\ env.tlsrpt.policies = <<"foreign", "local">>
    /\ result.accept /\ result.tlsReport

----------------------------------------------------------------------------
\* The date range of the report in the message ends more than 60 s from now.
DMARCReportInFuture ==
    /\ ~env.dmarcrpt.parseErr
    /\ env.dmarcrpt.end > env.now + 60
TLSReportInFuture ==
    /\ ~env.tlsrpt.parseErr
    /\ env.tlsrpt.end > env.now + 60

(* C16: a report, DMARC aggregate report or TLS report alike, whose        *)
(* date-range end lies more than 60 s in the future is discarded: the      *)
(* analysis result never carries it.                                       *)
C16_FutureReportsDiscarded ==
    Done =>
        /\ DMARCReportInFuture => ~result.dmarcReport
        /\ TLSReportInFuture => ~result.tlsReport

\* The message is a valid TLS report for its destination.
TLSReportValid == d.destination.TLSReports /\ TLSReportSigned /\ TLSReportLocal

(* C17: when a validated DMARC or TLS report was extracted, the verdict is *)
(* reached at the reputation step: a reputation-error reject, a conclusive *)
(* junk reject, a conclusive ham accept, or else an accept with reason     *)
(* reporting; SPF, iprev, subjectpass, the junk filter and the DNSBLs are  *)
(* not evaluated, and every accepting result carries the report(s).        *)
C17_ReportVerdict ==
    Done /\ NoVerdictBeforeReputation /\ (DMARCReportValid \/ TLSReportValid) =>
        /\ IF ~ReputationSucceeds
           THEN /\ ~result.accept
                /\ result.code = 451 /\ result.secode = "5.3.0"
                /\ result.reason = "reputation-error"
           ELSE IF env.reputation.conclusive
           THEN IF env.reputation.isjunk = "true"
                THEN SoftReject(env.reputation.method)
                ELSE result.accept /\ result.reason = env.reputation.method
           ELSE result.accept /\ result.reason = "reporting"
        /\ result.reason \notin {"spf-policy", "iprev"}
        /\ ~Called("Subjectpass")
        /\ ~Called("subjectpass.Verify")
        /\ NoJunkFilterOrDNSBL
        /\ result.accept =>
              /\ result.code = 0
              /\ result.dmarcReport = DMARCReportValid
              /\ result.tlsReport = TLSReportValid

\* C17's case: a message with both reports is accepted for them, with both,
\* although SPF and iprev fail, the content is spam and a DNSBL lists the sender.
C17_Witness ==
    /\ Done /\ NoVerdictBeforeReputation
    /\ DMARCReportValid /\ TLSReportValid
    /\ ~env.reputation.conclusive
    /\ d.m.MailFromValidation = "fail" /\ d.iprevStatus = "fail"
    /\ env.junk.contentProb > env.junk.Threshold
    /\ ListingExists
    /\ result.accept /\ result.reason = "reporting"
    /\ result.dmarcReport /\ result.tlsReport

----------------------------------------------------------------------------
\* The mailbox the message would be delivered to: the ruleset's if a ruleset
\* matches, else the destination's, else Inbox; whether it exists, and its ID.
IntendedName ==
    IF env.rs.present THEN env.rs.Mailbox
    ELSE IF d.destination.Mailbox /= "" THEN d.destination.Mailbox
    ELSE "Inbox"
IntendedExists == \E mb \in acc.mailboxes : mb.Name = IntendedName
IntendedID == (CHOOSE mb \in acc.mailboxes : mb.Name = IntendedName).ID

\* analyze returned; the server acted on its result.
Returned == pc \in {"done", "delivered"}
Delivered == pc = "delivered"

\* The messages in the Rejects mailbox.
RejectsCopies ==
    {msg \in acc.messages :
        \E mb \in acc.mailboxes : mb.Name = "Rejects" /\ msg.MailboxID = mb.ID}

(* C18: when analysis rejects a message and the account has a Rejects      *)
(* mailbox configured, exactly one copy is delivered to the Rejects        *)
(* mailbox, with mailbox_id that of Rejects and mailbox_destined_id that   *)
(* of the mailbox it would have been delivered to; analyze records that    *)
(* mailbox (the ruleset's, else the destination's, else Inbox) in both     *)
(* MailboxID and MailboxDestinedID when it exists and leaves both          *)
(* unchanged when it does not.                                             *)
C18_RejectsCopy ==
    /\ Returned /\ ~result.accept =>
          IF IntendedExists
          THEN m = [MailboxID |-> IntendedID, MailboxDestinedID |-> IntendedID]
          ELSE m = [MailboxID |-> 0, MailboxDestinedID |-> 0]
    /\ Delivered /\ ~result.accept /\ env.conf.RejectsMailbox = "Rejects" =>
          /\ Cardinality(RejectsCopies) = 1
          /\ \A msg \in RejectsCopies :
                IntendedExists => msg.MailboxDestinedID = IntendedID

----------------------------------------------------------------------------
\* The recipient history has a recent entry for the sender of the message.
SentRecently ==
    \E r \in env.recipients :
        /\ r.Localpart = d.msgFrom.Localpart
        /\ r.Domain = d.msgFrom.Domain
        /\ r.recent

\* The junk filter alone would refuse the content, whatever the jitter.
JunkFilterRefuses ==
    /\ env.junk.open = "ok" /\ ~env.junk.classifyErr
    /\ env.junk.contentProb > env.junk.Threshold + 50

\* The earlier messages of the account do not make the sender conclusive ham.
NoHamHistory ==
    ~(~env.history.err /\ env.history.conclusive /\ env.history.isjunk = "false")

(* C19: with a recent entry for the sender in the recipient history, the   *)
(* reputation verdict is conclusive ham and a message of that sender is    *)
(* accepted even when the junk filter alone would refuse its content;      *)
(* without the entry the same message is refused with 451.                 *)
C19_SentRecently ==
    Done /\ NoVerdictBeforeReputation =>
        /\ SentRecently =>
              /\ env.reputation.conclusive /\ env.reputation.isjunk = "false"
              /\ ~env.reputation.err
              /\ result.accept
              /\ result.code = 0
              /\ result.reason = env.reputation.method
              /\ NoJunkFilterOrDNSBL
        /\ ~SentRecently /\ NoHamHistory /\ JunkFilterRefuses =>
              /\ env.reputation = env.history
              /\ ~result.accept
              /\ result.code = 451

\* C19's case: the sender has a junk history and sends spam, and is accepted
\* because the account recently sent a message to the sender.
C19_Witness ==
    /\ Done /\ NoVerdictBeforeReputation
    /\ SentRecently
    /\ env.history.conclusive /\ env.history.isjunk = "true"
    /\ JunkFilterRefuses
    /\ result.accept

----------------------------------------------------------------------------
\* Every message has a uid below the uid_next of the mailbox it is in.
UIDNextConsistent ==
    \A msg \in acc.messages :
        \E mb \in acc.mailboxes : mb.ID = msg.MailboxID /\ msg.UID < mb.UIDNext

\* Every mailbox has a uid validity below the account's next uid validity.
UIDValidityConsistent ==
    \A mb \in acc.mailboxes :
        acc.hasNextUIDValidity /\ mb.UIDValidity < acc.NextUIDValidity

(* C20: after any sequence of store operations (deliver, mailbox create,   *)
(* rename, destroy) every message has uid < uid_next of its mailbox and    *)
(* every mailbox has uid_validity < the account's next_uid_validity; these *)
(* are the two conditions verifydata checks: it reports each of them       *)
(* exactly when it is violated, and fails when either is.                  *)
C20_UIDInvariants ==
    /\ acc.store =>
          /\ UIDNextConsistent
          /\ UIDValidityConsistent
          /\ \A m1, m2 \in acc.messages :
                m1.MailboxID = m2.MailboxID /\ m1.UID = m2.UID => m1 = m2
          /\ \A mb1, mb2 \in acc.mailboxes : mb1.Name = mb2.Name => mb1 = mb2
    /\ checked.ran =>
          /\ "inconsistent uidnext for message/mailbox" \in checked.errors
                <=> ~UIDNextConsistent
          /\ "inconsistent uidvalidity for mailbox/account" \in checked.errors
                <=> ~UIDValidityConsistent
          /\ ~UIDNextConsistent \/ ~UIDValidityConsistent => checked.fail
          /\ acc.store => ~checked.fail

\* C20's case: after deliveries and the destruction of a mailbox the
\* database is checked and found consistent.
C20_Witness ==
    /\ acc.store
    /\ \E mb \in acc.mailboxes : mb.UIDNext = 3 /\ mb.UIDValidity > 1
    /\ Cardinality(acc.messages) = 2
    /\ acc.lastMailboxID > Cardinality(acc.mailboxes)
    /\ checked.ran /\ ~checked.fail

----------------------------------------------------------------------------
(* Messages delivered through the control socket. *)

\* The message file of a message of the account.
MessageFiles(msg) ==
    {f \in disk : f.path = <<"accounts", "mjl", "msg">> \o MessagePath(msg.ID)}

\* The bytes hold the end of a header section.
HasHeaderSection(data) ==
    \E i \in 1..(Len(data) - 3) :
       data[i] = "\r" /\ data[i + 1] = "\n" /\ data[i + 2] = "\r" /\ data[i + 3] = "\n"

\* C21: every message delivered through the "deliver" command has one
\* message file at msg/<id / 8192>/<id>, its size is the length of its
\* prefix plus the number of bytes in the file, and its prefix is CRLF CRLF
\* exactly when the streamed bytes hold no end of a header section, empty
\* otherwise.
C21_DeliverSize ==
    \A msg \in acc.messages :
       /\ Cardinality(MessageFiles(msg)) = 1
       /\ \A f \in MessageFiles(msg) :
             /\ msg.Size = Len(msg.MsgPrefix) + Len(f.data)
             /\ msg.MsgPrefix =
                   IF HasHeaderSection(f.data) THEN <<>> ELSE <<"\r", "\n", "\r", "\n">>
       /\ MessagePath(msg.ID)[1] = (IF msg.ID < 8192 THEN "0" ELSE "1")

\* A message without header section was delivered, with the prefix, in the
\* second directory of message files.
C21_Witness ==
    \E msg \in acc.messages :
       /\ msg.ID = 8192
       /\ msg.MsgPrefix /= <<>>
       /\ msg.Size = 8
       /\ ctl[1].out = <<"ctlv0", "ok", "ok", "ok", "ok">>

----------------------------------------------------------------------------
(* Files verifydata finds that belong to no message. *)

\* The files of the data directory below queue/ and below the account's
\* msg/, with the directory they are in and their path below it.
Found(files) ==
    {[dir |-> <<"queue">>, p |-> SubSeq(f.path, 2, Len(f.path))] :
        f \in {x \in files : x.path[1] = "queue"}}
    \cup {[dir |-> <<"accounts", "mjl", "msg">>, p |-> SubSeq(f.path, 4, Len(f.path))] :
            f \in {x \in files : x.path[1] = "accounts"}}

\* The file is the message file of a message in the database of its directory.
OfMessage(e) ==
    /\ Len(e.p) = 2
    /\ \/ e.dir = <<"queue">> /\ \E id \in queue.ids : e.p = <<"0", Itoa(id)>>
       \/ e.dir /= <<"queue">> /\ \E msg \in acc.messages : e.p = <<"0", Itoa(msg.ID)>>

\* The file is in a directory of message files (at any depth) and belongs
\* to no message.
Unreferenced(e) == Len(e.p) >= 2 /\ ~OfMessage(e)
\* The file is directly in queue/ or msg/ and is not the queue's database.
Direct(e) == Len(e.p) = 1 /\ e.p /= <<"index.db">>
\* The file is below a directory of message files of the queue, and the
\* directory it is below in that one has a name that is not a number.
DeepInQueue(e) == e.dir = <<"queue">> /\ Len(e.p) >= 3 /\ e.p[2] \notin {"0", "1", "2", "3"}

InPlace(e) == \E f \in disk : f.path = e.dir \o e.p
MovedAway(e) == \E f \in disk : f.path = <<"moved">> \o e.dir \o e.p

\* The data directory before verifydata ran: the files moved are put back.
Before ==
    {IF f.path[1] = "moved" THEN [f EXCEPT !.path = Tail(f.path)] ELSE f : f \in disk}

FileErrors == {"unrecognized file in queue directory",
               "unrecognized file in account message directory"}

----------------------------------------------------------------------------
(* The data stream. *)

\* What the reader returned is the beginning of what the writer was handed.
ReceivedInOrder ==
    /\ Len(wire.got) <= wire.sent
    /\ wire.got = SubSeq(wire.data, 1, Len(wire.got))

\* C23: what the reader's Reads return is, in order, what the writer was
\* handed, whatever the chunks and the buffers; the reader returns io.EOF
\* only after xclose and after all bytes, and does so once the connection is
\* read empty after xclose; neither side fails; and once io.EOF was
\* returned a Read changes nothing, on the connection neither.
C23_StreamRoundTrip ==
    /\ [](wire.mode = "stream" =>
             /\ ReceivedInOrder
             /\ wire.rpc /= "failed" /\ wire.wpc /= "failed"
             /\ wire.err = "EOF" => wire.got = wire.data /\ wire.wpc = "closed"
             /\ wire.last.err = "EOF" => wire.last.n = 0 /\ wire.err = "EOF"
             /\ wire.wpc = "closed" /\ wire.c2s = <<>> =>
                   wire.err = "EOF" /\ wire.got = wire.data)
    /\ [][wire.err = "EOF" => wire' = wire]_vars

\* Bytes with a newline and a zero among them went through in more than one
\* chunk, and the reader returned io.EOF.
C23_Witness ==
    /\ wire.mode = "stream"
    /\ wire.err = "EOF"
    /\ wire.last = [n |-> 0, err |-> "EOF"]
    /\ wire.got = <<"0", "\n", "a", "\r">>
    /\ Len(wire.s2c) = 0

----------------------------------------------------------------------------
(* Commands on the control socket. *)

\* The error lines of the handlers.
ErrorLines ==
    {msg \o ": error" :
        msg \in {"open account", "setting password", "closing account", "listing queue",
                 "parsing id", "kicking queue", "dropping messages from queue",
                 "opening message", "parsing domain", "adding domain", "removing domain",
                 "adding account", "removing account", "adding address",
                 "removing address"}}
    \cup {"bad level"}

\* The commands served on the connections, with the connection of each and
\* its place among the commands of the connection.
Served ==
    {[conn |-> c, i |-> i] : c \in DOMAIN ctl, i \in 1..2} \cap
    {x \in [conn : DOMAIN ctl, i : 1..2] : x.i <= Len(ctl[x.conn].log)}
Entry(x) == ctl[x.conn].log[x.i]

ErrorCount(x) == Cardinality({k \in DOMAIN Entry(x).lines : Entry(x).lines[k] \in ErrorLines})
LastLine(x) == Entry(x).lines[Len(Entry(x).lines)]
\* The command was the last one served on its connection, which is closed.
EndedConnection(x) == x.i = Len(ctl[x.conn].log) /\ ctl[x.conn].closed

HandlerFailed(x) == Entry(x).fault /= "none"
Succeeded(x) == Entry(x).fault = "none" /\ Entry(x).cmd /= "bogus"
StopServed == \E x \in Served : Entry(x).cmd = "stop"
AnswersWithStream(x) == Entry(x).cmd \in {"queue", "queuedump", "loglevels"}

\* C24, as stated: a failing handler writes exactly one error line and ends
\* its connection; a command that succeeds has ok as its last line.
C24_AsStated ==
    \A x \in Served :
       /\ HandlerFailed(x) => ErrorCount(x) = 1 /\ EndedConnection(x)
       /\ Succeeded(x) => Entry(x).lines /= <<>> /\ LastLine(x) = "ok"

\* C24, corrected: a handler that fails through ctl.xcheck or ctl.xerror
\* writes exactly one error line, as its last line; one that fails in its
\* data stream writes none; either way it is the last command of its
\* connection, which is closed.  A command that succeeds writes no error
\* line and the line ok: as its last line, or, if it answers with a data
\* stream, as its first line, the stream's closing line 0 being the last;
\* stop writes nothing.  A connection is closed only by a failure of its
\* own last command, or by stop.
C24_HandlerFailure ==
    /\ \A x \in Served :
          /\ HandlerFailed(x) /\ Entry(x).fault /= "stream" =>
                ErrorCount(x) = 1 /\ LastLine(x) \in ErrorLines /\ EndedConnection(x)
          /\ Entry(x).fault = "stream" => ErrorCount(x) = 0 /\ EndedConnection(x)
          /\ Succeeded(x) /\ Entry(x).cmd /= "stop" =>
                /\ ErrorCount(x) = 0
                /\ IF AnswersWithStream(x)
                   THEN Entry(x).lines[1] = "ok" /\ LastLine(x) = "0"
                   ELSE LastLine(x) = "ok"
          /\ Entry(x).cmd = "stop" => Entry(x).lines = <<>>
    /\ \A c \in DOMAIN ctl :
          ctl[c].closed =>
             \/ StopServed
             \/ ctl[c].log /= <<>> /\ HandlerFailed([conn |-> c, i |-> Len(ctl[c].log)])

\* A handler failed on the first connection after a command that succeeded
\* there, and the server served a command on the second connection.
C24_Witness ==
    /\ Len(ctl) = 2
    /\ Len(ctl[1].log) = 2
    /\ ctl[1].log[1].fault = "none" /\ ctl[1].log[2].fault = "setting password"
    /\ ctl[1].closed /\ ctl[1].out = <<"ctlv0", "ok", "setting password: error">>
    /\ ~ctl[2].closed /\ ctl[2].log /= <<>> /\ ctl[2].out = <<"ctlv0", "ok">>

----------------------------------------------------------------------------
(* The queuekick command. *)

\* The id a parameter line stands for; -1 if it is no number.
KickID(idstr) ==
    CASE idstr = <<"0">> -> 0
      [] idstr = <<"1">> -> 1
      [] idstr = <<"2">> -> 2
      [] OTHER -> -1
Decimal(n) == <<"0", "1", "2", "3", "4", "5", "6", "7", "8", "9">>[n + 1]

\* The message matches all the filters that are given.
Matching(qm, kick) ==
    /\ KickID(kick.idstr) /= 0 => qm.ID = KickID(kick.idstr)
    /\ kick.todomain /= "" => qm.RecipientDomain = kick.todomain
    /\ kick.recipient /= "" =>
          qm.RecipientLocalpart \o "@" \o qm.RecipientDomain = kick.recipient

\* The step is a queuekick command with a number as its id.
KickStep ==
    /\ queue'.last.op = "kick"
    /\ queue'.now = queue.now
    /\ KickID(queue'.last.kick.idstr) >= 0

\* C25: a kick sets next_attempt to now on exactly the messages that match
\* all given filters (an id of 0, an empty todomain and an empty recipient
\* do not filter), replaces their transport only if the transport line is
\* not empty, changes nothing else, leaves the other messages as they are
\* and answers with the number of matching messages and ok; after a kick
\* with an id the next_attempt of that message is at most now.
C25_Kick ==
    [][KickStep =>
         LET kick == queue'.last.kick
             matching == {qm \in queue.msgs : Matching(qm, kick)}
             kicked(qm) ==
                 [qm EXCEPT !.NextAttempt = queue.now,
                            !.Transport = IF kick.transport /= "" THEN kick.transport ELSE @]
         IN /\ queue'.msgs = (queue.msgs \ matching) \cup {kicked(qm) : qm \in matching}
            /\ queue'.last.lines = <<Decimal(Cardinality(matching)), "ok">>
            /\ \A qm \in queue'.msgs :
                  qm.ID = KickID(kick.idstr) /\ Matching(qm, kick) =>
                     qm.NextAttempt <= queue'.now]_vars

\* Both messages wait for a retry with a transport of their own; a kick
\* for one domain without a transport matched one of them, whose retry is
\* due now with its transport kept, and left the other waiting.
C25_Witness ==
    /\ queue.mode = "queue" /\ queue.last.op = "kick"
    /\ queue.last.kick = [idstr |-> <<"0">>, todomain |-> "remote.example",
                          recipient |-> "", transport |-> ""]
    /\ queue.last.lines = <<"1", "ok">>
    /\ \E qm \in queue.msgs :
          /\ qm.RecipientDomain = "remote.example" /\ qm.Attempts = 1
          /\ qm.NextAttempt = queue.now /\ qm.Transport = "other"
    /\ \E qm \in queue.msgs :
          /\ qm.RecipientDomain = "other.example" /\ qm.Transport = "relay"

\* The messages without the time of their next attempt.
WithoutNextAttempt(msgs) == {[qm EXCEPT !.NextAttempt = 0] : qm \in msgs}

\* C26: a kick that follows a kick with the same parameters, with no
\* submission and no attempt between the two, answers with the same count
\* and leaves the messages as they were, but for the time of the next
\* attempt.
C26_KickIdempotent ==
    [][/\ queue.last.op = "kick" /\ queue'.last.op = "kick"
       /\ queue'.now = queue.now
       /\ queue'.last.kick = queue.last.kick
       => /\ queue'.last.lines = queue.last.lines
          /\ WithoutNextAttempt(queue'.msgs) = WithoutNextAttempt(queue.msgs)
          /\ \A qm \in queue'.msgs :
                Matching(qm, queue'.last.kick) /\ KickID(queue'.last.kick.idstr) >= 0 =>
                   qm.NextAttempt = queue'.now]_vars

\* A kick for one recipient with a transport was repeated after time had
\* passed: the message that was due from the start is due at the later time.
C26_Witness ==
    /\ queue.mode = "queue" /\ queue.last.op = "kick" /\ queue.last.again
    /\ queue.last.kick.recipient = "b@other.example" /\ queue.last.kick.transport = "relay"
    /\ queue.last.lines = <<"1", "ok">>
    /\ queue.now > 0
    /\ \E qm \in queue.msgs :
          qm.Attempts = 0 /\ qm.NextAttempt = queue.now /\ qm.Transport = "relay"

----------------------------------------------------------------------------
(* The retries of the queue. *)

\* The last thing that happened is that an attempt for a message ended
\* with a temporary failure.
FailedTemporarily == queue.mode = "queue" /\ queue.last.op = "attempt" /\ queue.last.outcome = "451"
Listed(id) == \E qm \in queue.msgs : qm.ID = id
Listing(id) == CHOOSE qm \in queue.msgs : qm.ID = id
\* The wait after the n-th failure, in seconds.
Wait(n) == IF 450 * 2^(n - 1) < 24 * 3600 THEN 450 * 2^(n - 1) ELSE 24 * 3600
\* The attempts of the message failed at these times, and the next one is
\* due after the wait.
BackedOff(qm) ==
    LET n == Len(qm.Attempted)
    IN /\ n >= 1
       /\ qm.Attempts = n
       /\ qm.NextAttempt = qm.Attempted[n] + Wait(n)
       /\ \A k \in 1..(n - 1) : qm.Attempted[k + 1] = qm.Attempted[k] + Wait(k)

\* C27, as stated: after every temporary failure the message is still
\* listed, with the attempts counted and the next attempt backed off.
C27_AsStated ==
    FailedTemporarily => Listed(queue.last.id) /\ BackedOff(Listing(queue.last.id))

\* C27, corrected: after the n-th consecutive temporary failure of a
\* message, n being below the maximum number of attempts, attempts = n, the
\* message is still listed and its next attempt is due min(7.5 min *
\* 2^(n-1), 24 h) after the failed one, every attempt having come that long
\* after the one before; with the failure that brings attempts to the
\* maximum the message leaves the queue as failed.
C27_Backoff ==
    FailedTemporarily =>
       IF Listed(queue.last.id)
       THEN BackedOff(Listing(queue.last.id)) /\ Listing(queue.last.id).Attempts < queue.max
       ELSE \E g \in queue.gone :
               g.ID = queue.last.id /\ g.how = "failed" /\ g.attempts = queue.max

\* The ninth attempt failed, eight of them each twice as long after the one
\* before: the next attempt is due 24 hours later, not 32.
C27_Witness ==
    /\ FailedTemporarily
    /\ \E qm \in queue.msgs :
          /\ qm.ID = queue.last.id /\ qm.Attempts = 9
          /\ qm.Attempted[2] = qm.Attempted[1] + 450
          /\ qm.Attempted[9] = qm.Attempted[8] + 57600
          /\ qm.NextAttempt = qm.Attempted[9] + 86400

----------------------------------------------------------------------------
(* The life of a queued message. *)

QueueIDs == 1..(2 * Cardinality(Recipients))
Left(id) == \E g \in queue.gone : g.ID = id
Leaving(id) == CHOOSE g \in queue.gone : g.ID = id

\* Every message that is queued leaves the queue.
EveryMessageLeaves == \A id \in QueueIDs : Listed(id) ~> (~Listed(id) /\ Left(id))

\* A message leaves the queue with the success of an attempt or as failed,
\* after a permanent failure or with its attempts at the maximum; for a
\* failed message that has a sender, a DSN to that sender, with an empty
\* sender of its own, is in the queue from that moment.
HowMessagesLeave ==
    \A id \in QueueIDs :
       Listed(id) /\ ~Listed(id)' =>
          /\ queue'.last = [op |-> "attempt", id |-> id, outcome |-> queue'.last.outcome]
          /\ Left(id)'
          /\ LET g == Leaving(id)'
             IN IF queue'.last.outcome = "250"
                THEN g.how = "delivered" /\ queue'.msgs = queue.msgs \ {Listing(id)}
                ELSE /\ g.how = "failed"
                     /\ queue'.last.outcome = "550" \/ g.attempts = queue.max
                     /\ g.sender /= "" =>
                           \E dsn \in queue'.msgs \ queue.msgs :
                              /\ dsn.SenderLocalpart = "" /\ dsn.SenderDomain = ""
                              /\ dsn.RecipientLocalpart \o "@" \o dsn.RecipientDomain = g.sender
                              /\ dsn.NextAttempt <= queue'.now

\* With a failed attempt that leaves the message in the queue, the time
\* of its next attempt moves forward.
NextAttemptAdvances ==
    \A id \in QueueIDs :
       /\ Listed(id) /\ Listed(id)'
       /\ queue'.last.op = "attempt" /\ queue'.last.id = id /\ queue.last /= queue'.last
       => /\ Listing(id)'.NextAttempt > Listing(id).NextAttempt
          /\ Listing(id)'.NextAttempt > queue'.now

\* The loop goes on: whenever a message is due and no attempt is running,
\* the scheduler can start an attempt.
LoopGoesOn ==
    queue.mode = "queue" =>
       ((\E qm \in queue.msgs : qm.NextAttempt <= queue.now)
          /\ (\A qm \in queue.msgs : qm.Leased = 0)
        => ENABLED QueueStart)

\* C28: under a fair scheduler every message added to the queue leaves it:
\* removed after a successful delivery, or dropped after a permanent
\* failure or once its attempts reach the maximum, with a DSN queued to its
\* sender with an empty envelope sender; while it stays queued every failed
\* attempt moves next_attempt forward, and a failed attempt does not keep
\* the scheduler from attempting messages.
C28_EveryMessageLeaves ==
    /\ EveryMessageLeaves
    /\ [][HowMessagesLeave /\ NextAttemptAdvances]_vars
    /\ []LoopGoesOn

\* A message failed temporarily and then for good, its DSN was queued and
\* delivered while the other message, submitted as well, failed and waits
\* for its retry.
C28_Witness ==
    /\ queue.mode = "queue"
    /\ \E g \in queue.gone :
          /\ g.how = "failed" /\ g.sender = "mjl@mox.example" /\ g.attempts = queue.max
          /\ \E h \in queue.gone : h.ID = g.dsn /\ h.how = "delivered" /\ h.sender = ""
    /\ \E qm \in queue.msgs : qm.Attempts = 1 /\ qm.NextAttempt > queue.now /\ qm.DSNFor = 0

----------------------------------------------------------------------------
(* The attempts that run at a time. *)

Running == {qm \in queue.msgs : qm.Leased > 0}
RunningTo(domain) == {qm \in Running : qm.RecipientDomain = domain}
\* The message is due, no attempt runs for it, and the caps leave room for
\* an attempt to its domain.
Ready(qm) ==
    /\ qm.NextAttempt <= queue.now
    /\ qm.Leased = 0
    /\ Cardinality(Running) < MaxConcurrentDeliveries
    /\ Cardinality(RunningTo(qm.RecipientDomain)) < MaxDeliveriesPerDomain

\* C29: at every moment at most one attempt runs for a queue entry, also
\* after a kick of an entry whose attempt is running; the attempts that run
\* stay within the cap for all and the cap for a domain; and whatever
\* attempts are running, while an entry is ready within the caps the
\* scheduler can start an attempt.
C29_OneAttemptPerEntry ==
    queue.mode = "queue" =>
       /\ \A qm \in queue.msgs : qm.Leased <= 1
       /\ Cardinality(Running) <= MaxConcurrentDeliveries
       /\ \A qm \in Running :
             Cardinality(RunningTo(qm.RecipientDomain)) <= MaxDeliveriesPerDomain
       /\ (\E qm \in queue.msgs : Ready(qm)) => ENABLED QueueStart

\* The first message, due for its retry, is being attempted and was kicked
\* during the attempt; the attempt for a message to the other domain was
\* started meanwhile and runs as well.
C29_Witness ==
    /\ queue.mode = "queue"
    /\ queue.last.op = "kick" /\ queue.last.lines = <<"1", "ok">>
    /\ \E qm \in queue.msgs :
          /\ qm.ID = 1 /\ qm.Leased = 1 /\ qm.Attempts = 1 /\ qm.NextAttempt = queue.now
          /\ \E other \in queue.msgs :
                other.Leased = 1 /\ other.RecipientDomain /= qm.RecipientDomain

----------------------------------------------------------------------------
(* The retrain command. *)

Retrained == Len(ctl) = 1 /\ ctl[1].log /= <<>> /\ ctl[1].log[1].cmd = "retrain"
RetrainInput == ctl[1].log[1].fault
RepliedOK == ctl[1].log[1].lines = <<"ok">>
CallAt(op) == {i \in DOMAIN calls : calls[i].op = op}
FlaggedMessages == {id \in {msg.ID : msg \in acc.messages} : RetrainInput.flags[id] /= ""}
\* The junk filter on disk is trained with the flagged messages, once
\* each, and with nothing else.
FreshlyTrained ==
    /\ \E f \in disk : f.path = <<"accounts", "mjl", "junkfilter.bloom">>
    /\ \E f \in disk :
          /\ f.path = <<"accounts", "mjl", "junkfilter.db">>
          /\ {f.data[i] : i \in DOMAIN f.data} = FlaggedMessages
          /\ Len(f.data) = Cardinality(FlaggedMessages)

\* C30: when retrain replies ok, the handler has, between taking and
\* releasing the account's write lock, removed both junk filter files,
\* opened a junk filter, offered every message of the account to
\* TrainMessage and then closed the filter, and the junk filter is a fresh
\* one trained with the messages flagged junk or notjunk; for an account
\* with no junk filter configured the reply is an error and the files are
\* as before.
C30_Retrain ==
    Retrained =>
       /\ RepliedOK =>
             /\ RetrainInput.conf
             /\ calls[1].op = "WLock" /\ calls[Len(calls)].op = "WUnlock"
             /\ Cardinality(CallAt("os.Remove")) = 2
             /\ \A id \in {msg.ID : msg \in acc.messages} :
                   \E i \in CallAt("TrainMessage") : calls[i].zone = id
             /\ \A i \in CallAt("os.Remove"), j \in CallAt("OpenJunkFilter"),
                   k \in CallAt("TrainMessage"), l \in CallAt("Close") : i < j /\ j < k /\ k < l
             /\ CallAt("Close") /= {} /\ RetrainInput.close = "ok"
             /\ FreshlyTrained
       /\ RetrainInput.open = "ok" /\ ~RetrainInput.conf =>
             /\ ~RepliedOK /\ ctl[1].closed
             /\ disk = RetrainInput.before

----------------------------------------------------------------------------
(* C31: Policy.Matches. *)

\* The labels of a dotted name.
RECURSIVE Labels(_)
Labels(name) ==
    LET i == IndexDot(name) IN
    IF i = 0 THEN <<name>>
    ELSE <<SubSeq(name, 1, i - 1)>> \o Labels(SubSeq(name, i + 1, Len(name)))

\* The mx entry covers the host: the same name, or for a wildcard the host
\* with exactly its first label removed.
Covers(mx, host) ==
    IF mx.Wildcard
    THEN /\ Len(Labels(host.ASCII)) >= 2
         /\ Tail(Labels(host.ASCII)) = Labels(mx.Domain.ASCII)
    ELSE mx.Domain = host

\* "*.a" as the only mx entry.
OnlyWildcard(p) == p.MX = <<STSMX(TRUE, Domain(<<"a">>))>>

\* C31: Matches is true iff some mx entry is not a wildcard and equals the
\* host, or is a wildcard whose domain is the host without its first label;
\* *.a matches b.a but neither a nor b.b.a; an empty mx list matches no host.
C31_Matches ==
    sts.mode = "matched" =>
        /\ sts.matched <=> \E i \in 1..Len(sts.policy.MX) : Covers(sts.policy.MX[i], sts.host)
        /\ OnlyWildcard(sts.policy) /\ sts.host.ASCII = <<"b", ".", "a">> => sts.matched
        /\ OnlyWildcard(sts.policy) /\ sts.host.ASCII = <<"a">> => ~sts.matched
        /\ OnlyWildcard(sts.policy) /\ sts.host.ASCII = <<"b", ".", "b", ".", "a">> => ~sts.matched
        /\ sts.policy.MX = <<>> => ~sts.matched

\* A wildcard entry was tried on a host two labels below its domain, after an
\* entry that did not match.
C31_Witness ==
    /\ sts.mode = "matched"
    /\ Len(sts.policy.MX) = 2
    /\ ~sts.policy.MX[1].Wildcard
    /\ OnlyWildcard([MX |-> <<sts.policy.MX[2]>>])
    /\ sts.host.ASCII = <<"b", ".", "b", ".", "a">>
    /\ ~sts.matched

----------------------------------------------------------------------------
(* C35: LookupRecord terminates and reports what it followed. *)

\* The answer the resolver gave to call i.
Answered(i) ==
    LET c == sts.calls[i] IN
    IF c.op = "LookupTXT" THEN sts.resolver[c.name].txt ELSE sts.resolver[c.name].cname

\* The CNAMEs the resolver answered with so far, in order.
RECURSIVE Followed(_)
Followed(i) ==
    IF i = 0 THEN <<>>
    ELSE IF sts.calls[i].op = "LookupCNAME" /\ Answered(i).err = "nil"
    THEN Append(Followed(i - 1), Answered(i).cname)
    ELSE Followed(i - 1)

LookupDone == sts.mode = "lookup" /\ sts.pc = "done"

LookupAsClaimed ==
    sts.mode = "lookup" =>
        LET n == Len(sts.calls) IN
        \* a CNAME is looked up only after the TXT lookup of that name reported not-found
        /\ \A i \in 1..n :
              sts.calls[i].op = "LookupCNAME" =>
                  /\ i > 1
                  /\ sts.calls[i - 1] = [op |-> "LookupTXT", name |-> sts.calls[i].name]
                  /\ Answered(i - 1).err = "notfound"
        \* at most 17 CNAMEs are followed
        /\ Len(sts.cnames) <= 17
        /\ n <= 2 * 17 + 1
        /\ sts.cnames = Followed(n)
        /\ LookupDone =>
              /\ sts.out.cnames = Followed(n)
              /\ sts.out.err = ErrTooManyCNAMEs =>
                    /\ Len(sts.out.cnames) = 17
                    /\ Answered(n).err = "notfound"
              /\ sts.calls[n].op = "LookupCNAME" /\ Answered(n).err = "notfound"
                    => sts.out.err = ErrNoRecord
              /\ Answered(n).err = "error" => "ErrDNS" \in sts.out.err.is
              /\ sts.out.err # stsNil => sts.out.record = nil

\* C35: LookupRecord terminates for every resolver, CNAME cycles included; a
\* CNAME is looked up only when the TXT lookup reports not-found, at most 17
\* CNAMEs are followed before "too many cnames", a not-found CNAME gives
\* ErrNoRecord, another DNS error gives an error wrapping ErrDNS, and the
\* CNAMEs followed so far are returned in every case.
C35_LookupTerminates == []LookupAsClaimed /\ <>LookupDone

\* A CNAME cycle was followed up to the limit.
C35_Witness ==
    /\ LookupDone
    /\ sts.out.err = ErrTooManyCNAMEs
    /\ Len(sts.out.cnames) = 17
    /\ \E i \in 1..17 : sts.out.cnames[i] # sts.out.cnames[1]

----------------------------------------------------------------------------
(* C32: Get fetches the policy only after a successful lookup. *)

GetReturned == sts.mode = "lookup" /\ sts.get = "returned"

HTTPFetches == {i \in 1..Len(sts.calls) : sts.calls[i].op = "HTTPClient.Do"}

\* The policy could not be fetched or parsed.
PolicyFailed ==
    \/ sts.http.err # "nil"
    \/ sts.http.status # 200
    \/ ~sts.http.readable
    \/ sts.http.body # "version: STSv1 mode: enforce mx: a max_age: 86400"

\* C32: if the lookup fails Get returns no record, no policy and the lookup
\* error, and fetches nothing over HTTP; if the record was retrieved but the
\* policy could not be fetched or parsed it returns the record, no policy and
\* the error; a policy is returned only with a record and without an error.
C32_Get ==
    /\ sts.mode = "lookup" /\ HTTPFetches # {} =>
          /\ sts.pc = "done"
          /\ sts.out.err = stsNil
          /\ sts.out.record # nil
    /\ GetReturned =>
          /\ sts.out.err # stsNil =>
                /\ sts.got = [record |-> nil, policy |-> nil, err |-> sts.out.err]
                /\ HTTPFetches = {}
          /\ sts.out.err = stsNil /\ PolicyFailed =>
                /\ sts.got.record = sts.out.record
                /\ sts.got.record # nil
                /\ sts.got.policy = nil
                /\ sts.got.err # stsNil
          /\ sts.got.policy # nil => sts.got.record # nil /\ sts.got.err = stsNil
          /\ sts.out.err = stsNil /\ ~PolicyFailed => sts.got.policy # nil

\* The record was found behind a CNAME and the policy served did not parse.
C32_Witness ==
    /\ GetReturned
    /\ Len(sts.out.cnames) = 1
    /\ sts.got.record # nil
    /\ sts.got.policy = nil
    /\ sts.http.readable
    /\ "ErrPolicySyntax" \in sts.got.err.is

----------------------------------------------------------------------------
(* C33: the account lock around reputation lookups, Deliver and retrain. *)

TaskAt(p, kind, whats) ==
    /\ locks.tasks[p].kind = kind
    /\ locks.tasks[p].status = "running"
    /\ AtStep(locks.tasks[p]).op = "Work"
    /\ AtStep(locks.tasks[p]).what \in whats

\* The task is looking up the reputation.
InReputation(p) == TaskAt(p, "analyze", {"reputation"})

\* The task is in Deliver, or in the retrain between its first and last call.
Writing(p) ==
    \/ TaskAt(p, "deliver", {"Deliver"})
    \/ TaskAt(p, "retrain", {"Conf", "os.Remove", "OpenJunkFilter", "TrainMessage", "jf.Close"})

SameAccount(p, q) == p # q /\ locks.tasks[p].account = locks.tasks[q].account

\* The task is inside WithRLock ("R") or WithWLock ("W").
InLock(p, mode) == locks.tasks[p].holds = mode

\* The task waits for the lock of its account.
WantsLock(p, op) ==
    locks.tasks[p].status = "running" /\ AtStep(locks.tasks[p]).op = op

\* C33: the reputation lookup runs inside the account read lock, ctl deliver
\* and retrain inside the write lock: on one account no two writers overlap
\* and no reputation lookup overlaps a Deliver or a retrain, while reputation
\* lookups do not wait for each other and nothing waits for work on another
\* account.
C33_AccountLock ==
    locks.mode = "tasks" =>
        \A p \in Tasks :
            /\ InReputation(p) => locks.tasks[p].holds = "R"
            /\ Writing(p) => locks.tasks[p].holds = "W"
            /\ \A q \in Tasks :
                  SameAccount(p, q) =>
                      /\ ~(Writing(p) /\ Writing(q))
                      /\ ~(InReputation(p) /\ Writing(q))
            /\ WantsLock(p, "RLock") /\ (\A q \in Tasks : SameAccount(p, q) => ~InLock(q, "W"))
                  => ENABLED AccountLock(p)
            /\ WantsLock(p, "WLock")
                  /\ (\A q \in Tasks : SameAccount(p, q) => ~InLock(q, "W") /\ ~InLock(q, "R"))
                  => ENABLED AccountLock(p)

\* Two reputation lookups run at once on one account while a retrain runs on
\* the other account.
C33_Witness ==
    /\ locks.mode = "tasks"
    /\ InReputation("smtp1")
    /\ InReputation("smtp2")
    /\ SameAccount("smtp1", "smtp2")
    /\ Writing("ctl2")
    /\ locks.tasks["ctl2"].kind = "retrain"
    /\ WantsLock("ctl1", "WLock")

----------------------------------------------------------------------------
(* C34: content classification and retrain on one account. *)

\* The steps of the task that have ended.
Ended(p) ==
    LET t == locks.tasks[p] IN
    {StepsOf(t.kind)[i].what : i \in 1..(t.pc - 1)}

\* The analyzer opens the junk filter or classifies with it.
Classifying(p) == TaskAt(p, "analyze", {"OpenJunkFilter", "ClassifyMessageReader"})

\* The retrain has removed the filter's files and has not yet closed the new filter.
Rebuilding(q) ==
    /\ locks.tasks[q].kind = "retrain"
    /\ locks.tasks[q].status = "running"
    /\ "os.Remove" \in Ended(q)
    /\ "jf.Close" \notin Ended(q)

\* C34: the analyzer never opens or reads the junk filter files of an account
\* for classification while a retrain of that account has removed them and
\* has not yet rebuilt and closed the new filter.
C34_ClassifyExcludesRetrain ==
    locks.mode = "tasks" =>
        \A p \in Tasks, q \in Tasks :
            SameAccount(p, q) => ~(Classifying(p) /\ Rebuilding(q))

----------------------------------------------------------------------------
(* C39: the account references of the ctl commands. *)

CtlTasks == {p \in Tasks : locks.tasks[p].kind # "analyze"}
Finished(p) == locks.tasks[p].status # "running"

\* C39: a ctl command that opened an account has closed it exactly once when
\* it is finished, with or without an error, and when all commands are
\* finished every account's reference count is what it was before them.
C39_ReferenceBalance ==
    locks.mode = "tasks" =>
        /\ \A p \in CtlTasks :
              Finished(p) => locks.tasks[p].closed = locks.tasks[p].opened
        /\ (\A p \in CtlTasks : Finished(p)) =>
              \A a \in LockAccounts : locks.accounts[a].refs = IdleAccount.refs

----------------------------------------------------------------------------
(* C36: an account without junk filter. *)

\* No earlier step gave a verdict and the account has no junk filter.
NoJunkFilterCase == NoVerdictBeforeContent /\ env.junk.open = "none"

(* C36: when the account has no junk filter and no earlier step gave a     *)
(* verdict, content causes no rejection: the message is accepted with      *)
(* reason no-bad-signals unless a DNSBL lists the remote IP, whatever the  *)
(* iprev status; any other error from opening the junk filter rejects     *)
(* with 451 and reason junk-filter-error.                                  *)
C36_NoJunkFilter ==
    Done =>
        /\ NoJunkFilterCase =>
              /\ PassesContent
              /\ ~Called("ClassifyMessageReader")
              /\ result.reason \notin {"junk-filter-error", "junk-classify-error"}
              /\ ~ListingExists => result.accept /\ result.reason = "no-bad-signals"
              /\ ListingExists =>
                    /\ ~result.accept
                    /\ result.reason \in {"dns-blocklisted", "give-subjectpass"}
                    /\ ~HintApplies => result.reason = "dns-blocklisted"
        /\ NoVerdictBeforeContent /\ env.junk.open = "error" =>
              /\ ~result.accept
              /\ result.code = 451
              /\ result.reason = "junk-filter-error"
              /\ ZoneCalls = <<>>

\* C36's case: no junk filter, iprev failed, the only zone that lists the IP
\* is unhealthy: the message is accepted.
C36_Witness ==
    /\ Done /\ NoJunkFilterCase
    /\ d.iprevStatus = "fail"
    /\ SuspiciousIPrevCase
    /\ Len(d.dnsBLs) = 1 /\ Lists(d.dnsBLs[1]) /\ ~Healthy(d.dnsBLs[1])
    /\ result.accept
    /\ result.reason = "no-bad-signals"

----------------------------------------------------------------------------
(* C40: the shape of every result of analyze. *)

(* C40: accept=true implies code 0, empty enhanced code and error message, *)
(* no error and userError=false; accept=false implies code 451 or 550,     *)
(* userError true exactly when no internal error is attached, and a        *)
(* non-empty reason other than no-bad-signals; no-bad-signals occurs only  *)
(* on acceptances reached after the content and DNSBL steps.               *)
C40_ResultShape ==
    Done =>
        /\ result.accept =>
              /\ result.code = 0
              /\ result.secode = ""
              /\ result.errmsg = [text |-> "", token |-> <<>>]
              /\ result.err = "nil"
              /\ ~result.userError
        /\ ~result.accept =>
              /\ result.code \in {451, 550}
              /\ result.userError <=> result.err = "nil"
              /\ result.reason /= ""
              /\ result.reason /= "no-bad-signals"
        /\ result.reason = "no-bad-signals" =>
              /\ result.accept
              /\ DNSBLReached
              /\ Called("OpenJunkFilter")
              /\ ~ListingExists
              /\ \A i \in DOMAIN d.dnsBLs :
                    \E c \in DOMAIN calls :
                       calls[c] = [op |-> "checkDNSBLHealth", zone |-> d.dnsBLs[i]]

\* C40's case: a message classified as ham is accepted with no-bad-signals
\* after a blocklist zone was found unhealthy.
C40_Witness ==
    /\ Done
    /\ result.accept
    /\ result.reason = "no-bad-signals"
    /\ Called("ClassifyMessageReader")
    /\ Len(d.dnsBLs) = 1 /\ ~Healthy(d.dnsBLs[1])
    /\ result.code = 0

----------------------------------------------------------------------------
(* C37: flow control of the data stream. *)

\* Nothing is on its way and every byte handed to the writer was returned.
AllAcknowledged ==
    wire.c2s = <<>> /\ wire.s2c = <<>> /\ wire.npending = 0 /\ Len(wire.got) = wire.sent

\* The peer of the reader is a ctlwriter.
FromWriter == wire.mode = "stream" /\ wire.wpc /= "peer"

\* Between a ctlwriter and a ctlreader at most one chunk is unacknowledged.
OneChunkInFlight ==
    FromWriter =>
        /\ Len(wire.s2c) <= 1
        /\ wire.s2c /= <<>> =>
              /\ wire.s2c = <<"ok">>
              /\ wire.wpc = "response"
              /\ wire.c2s = <<>> /\ wire.npending = 0 /\ Len(wire.got) = wire.sent
        /\ wire.wpc = "idle" => AllAcknowledged

\* The reader writes one ok, in the Read that consumes the last byte of the
\* chunk; the writer sends a count line only when all was acknowledged.
OkAfterLastByte ==
    /\ Len(wire'.s2c) > Len(wire.s2c) =>
          /\ wire'.s2c = Append(wire.s2c, "ok")
          /\ wire'.npending = 0
          /\ Len(wire'.got) > Len(wire.got)
          /\ FromWriter => Len(wire'.got) = wire.sent
    /\ FromWriter /\ Len(wire'.c2s) > Len(wire.c2s) => AllAcknowledged

\* Whatever the peer sent, npending stays within the announced size, and a
\* count line that is no number is the peer's error message.
WithinAnnounced ==
    wire.mode = "stream" =>
        /\ 0 <= wire.npending
        /\ wire.npending <= wire.announced
        /\ wire.rpc = "failed" => ~ParseInt(wire.xerror).ok
        /\ wire.rpc /= "panicked"

\* C37: the reader writes exactly one ok per chunk, only after the last byte
\* of the chunk was consumed, and the writer sends no further count line
\* before it has received that ok, so at most one chunk is unacknowledged;
\* for any count line received from the peer npending stays within
\* 0 <= npending <= the announced size, and a count line that is not a number
\* is treated as an error message from the peer.
C37_FlowControl ==
    /\ [](OneChunkInFlight /\ WithinAnnounced)
    /\ [][wire.mode = "stream" /\ wire'.mode = "stream" => OkAfterLastByte]_vars

----------------------------------------------------------------------------
(* C38: the data stream ends. *)

\* The writer has sent the end of the stream, the reader has returned io.EOF
\* and has received all bytes.
StreamFinished ==
    /\ wire.mode = "stream"
    /\ wire.wpc = "closed"
    /\ wire.err = "EOF"
    /\ wire.got = wire.data

\* C38: for every sequence of Writes, a Write of zero bytes included,
\* followed by xclose, with a reader that reads until io.EOF, both sides
\* finish, neither waits forever, and the reader has received the
\* concatenation of all chunks written.
C38_StreamTerminates ==
    /\ <>StreamFinished
    /\ [](wire.mode = "stream" /\ wire.err = "EOF" => Len(wire.got) = wire.sent)

====
